---- MODULE Spec2Model ----
(***************************************************************************)
(* A model of the MariaDB monitor's per-server agent (MariaDBServer) and   *)
(* of the role-change operations built on it.                              *)
(*                                                                         *)
(*  - Cmd* actions: the retry loop of execute_cmd_time_limit, one action  *)
(*    per attempt, with time counted in ticks (TicksPerSec per second).    *)
(*  - Op* actions: demote, promote, remove_slave_conns, redirect and the  *)
(*    monitor's slave status read, each one whole call against a backend   *)
(*    whose answers are drawn from an oracle.                              *)
(*  - Sw* actions: the switchover script of the orchestrator.             *)
(***************************************************************************)
EXTENDS Integers, Sequences, FiniteSets, TLC

VARIABLES
    cmd,        \* the running execute_cmd_time_limit call (locals of the function)
    srv,        \* per server: the agent's cache and the state of its backend
    op,         \* GeneralOpData: time_remaining and the JSON error array
    sent,       \* every command handed to a backend connection, in order
    now,        \* the clock the stopwatches of the operations read
    call,       \* the operation that ran last: its arguments, result and pre-state
    sw          \* position and outcome of the switchover script

vars == <<cmd, srv, op, sent, now, call, sw>>

(***************************************************************************)
(* Bounds of the model.                                                    *)
(***************************************************************************)
\* Clock resolution of the retry loop: ticks per second.
TicksPerSec == 2
\* Largest time_limit given to execute_cmd_time_limit, in ticks.
MaxLimit == 5
\* Longest single query attempt, in ticks.
MaxQueryTime == 3

Min(a, b) == IF a < b THEN a ELSE b

Last(s) == s[Len(s)]

(***************************************************************************)
(* execute_cmd_time_limit                                                  *)
(***************************************************************************)
\* What one attempt (execute_cmd_no_retry) can report: success, the command
\* unexpectedly returned data (no errno), or a failure with an errno of the
\* given class.
ER_STATEMENT_TIMEOUT == "ER_STATEMENT_TIMEOUT"
NetErrnos == {"CR_SERVER_LOST", "CR_SERVER_GONE_ERROR"}
OtherErrnos == {"ER_PARSE_ERROR"}
AttemptOutcomes ==
    {"OK", "DATA", ER_STATEMENT_TIMEOUT} \cup NetErrnos \cup OtherErrnos

\* errornum as execute_cmd_ex leaves it: 0 unless the query itself failed.
ErrnoOf(outcome) == IF outcome \in {"OK", "DATA"} THEN "0" ELSE outcome

mxs_mysql_is_net_error(errornum) == errornum \in NetErrnos

\* Values mysql_get_optionv can store for MYSQL_OPT_READ_TIMEOUT, in seconds.
ConnectorTimeouts == {0, 1}

\* Whether the "SET STATEMENT max_statement_time=<timeout> FOR " prefix is added.
MaxStmtTimePrefix(max_statement_time, connector_timeout) ==
    max_statement_time /\ connector_timeout > 0

\* Mutations of the retry decision and of the sleep.
KeepTryingNoBudgetCheck(time_remaining, errornum, prefixed) ==
    \/ mxs_mysql_is_net_error(errornum)
    \/ (prefixed /\ errornum = ER_STATEMENT_TIMEOUT)

KeepTryingAnyError(time_remaining, errornum, prefixed) ==
    time_remaining > 0

KeepTryingNoPrefixCheck(time_remaining, errornum, prefixed) ==
    /\ time_remaining > 0
    /\ \/ mxs_mysql_is_net_error(errornum)
       \/ errornum = ER_STATEMENT_TIMEOUT

QuerySleepNone(query_time, time_remaining) == 0

\* keep_trying as computed after each attempt.
KeepTrying(time_remaining, errornum, prefixed) ==
    /\ time_remaining > 0
    /\ \/ mxs_mysql_is_net_error(errornum)
       \/ (prefixed /\ errornum = ER_STATEMENT_TIMEOUT)

\* The sleep after a failed attempt that will be retried.
QuerySleep(query_time, time_remaining) ==
    IF query_time < TicksPerSec
    THEN Min(time_remaining, TicksPerSec - query_time)
    ELSE 0

CmdIdle ==
    [pc |-> "idle", time_limit |-> 0, prefixed |-> FALSE, timer |-> 0,
     cmd_success |-> FALSE, keep_trying |-> TRUE, errmsg_out |-> FALSE,
     result |-> FALSE, hist |-> <<>>]

\* Entry of the function: the timer starts, the prefix is decided.
CmdCall ==
    /\ cmd.pc = "idle"
    /\ \E limit \in (0 - TicksPerSec)..MaxLimit, mst \in BOOLEAN,
          ct \in ConnectorTimeouts :
          cmd' = [CmdIdle EXCEPT !.pc = "loop", !.time_limit = limit,
                                 !.prefixed = MaxStmtTimePrefix(mst, ct)]
    /\ UNCHANGED <<srv, op, sent, now, call, sw>>

\* One iteration of the while loop: the attempt, the retry decision, the
\* warning-and-sleep or the error output.
CmdAttempt ==
    /\ cmd.pc = "loop"
    /\ ~cmd.cmd_success /\ cmd.keep_trying
    /\ \E outcome \in AttemptOutcomes, query_time \in 0..MaxQueryTime :
          LET start == cmd.timer
              success == (outcome = "OK")
              errornum == ErrnoOf(outcome)
              time_remaining == cmd.time_limit - (start + query_time)
              keep == KeepTrying(time_remaining, errornum, cmd.prefixed)
              slept == IF ~success /\ keep
                       THEN QuerySleep(query_time, time_remaining) ELSE 0
          IN cmd' = [cmd EXCEPT
                  !.cmd_success = success,
                  !.keep_trying = keep,
                  !.timer = start + query_time + slept,
                  !.errmsg_out = IF ~success /\ ~keep THEN TRUE ELSE @,
                  !.hist = Append(@, [start |-> start, outcome |-> outcome,
                                      errornum |-> errornum,
                                      query_time |-> query_time,
                                      time_remaining |-> time_remaining])]
    /\ UNCHANGED <<srv, op, sent, now, call, sw>>

\* Loop exit: return cmd_success.
CmdReturn ==
    /\ cmd.pc = "loop"
    /\ cmd.cmd_success \/ ~cmd.keep_trying
    /\ cmd' = [cmd EXCEPT !.pc = "done", !.result = cmd.cmd_success]
    /\ UNCHANGED <<srv, op, sent, now, call, sw>>

(***************************************************************************)
(* Servers, backends and the agent cache                                   *)
(***************************************************************************)
\* The monitored servers. srv1 starts as the master.
Servers == {"srv1", "srv2", "srv3"}
\* A master outside the monitored set.
ExtHost == "ext"

\* server->address and server->port of a monitored server.
Address(s) == s
Port(s) == 3306
\* @@global.server_id of the host behind an address.
ServerIdOfHost(h) ==
    CASE h = "srv1" -> 1 [] h = "srv2" -> 2 [] h = "srv3" -> 3
      [] h = "ext2" -> 8 [] OTHER -> 9

\* GtidList: a set of triples, at most one per domain. Both the empty string
\* and a NULL value give the empty list.
NoGtid == {}
Gtid(seq) == {[domain |-> 0, server_id |-> 1, sequence |-> seq]}

\* One row of SHOW ALL SLAVES STATUS as the backend holds it.
BackendConn(name, host, id, io, sql) ==
    [name |-> name, master_host |-> host, master_port |-> 3306,
     master_server_id |-> id, io |-> io, sql |-> sql,
     using_gtid |-> "Current_Pos", gtid_io_pos |-> Gtid(1),
     received_heartbeats |-> 0]

\* SlaveStatus as the default constructor leaves it, at time t.
NewSlaveStatus(t) ==
    [name |-> "", master_host |-> "", master_port |-> 0,
     master_server_id |-> 0 - 1, slave_io_running |-> "NO",
     slave_sql_running |-> FALSE, gtid_io_pos |-> NoGtid,
     received_heartbeats |-> 0, last_data_time |-> t, seen_connected |-> FALSE]

(***************************************************************************)
(* The machine state an operation works on, and its oracle.                *)
(*   m = [srv, op, sent, now]; an operation returns [m |-> m', ok |-> b].  *)
(*   The oracle o decides what the backend answers during one call:        *)
(*   o.fail  - which of the commands of the call fail (by position),       *)
(*   o.quirk - "stuck": RESET SLAVE ALL reports success and removes        *)
(*             nothing; "denied": a failing super-user query fails with an *)
(*             access-denied errno; "nofile": the sql file cannot be       *)
(*             opened,                                                     *)
(*   o.dur   - how many seconds each command takes,                        *)
(*   o.base  - Len(sent) when the call started.                            *)
(***************************************************************************)
\* How many of the commands of one call may fail.
MaxFailures == 1
\* Upper bound of the number of commands one call sends.
MaxCmds == 16

Quirks == {"none", "stuck", "denied", "nofile"}

\* What can be particular about the result set of a direct read whose query
\* succeeded: no row, 39, 40 or 41 columns, a required column missing, a
\* server id or a gtid domain id that cannot be parsed.
ResultQuirks ==
    {"none", "norow", "cols39", "cols40", "cols41", "nocolumn", "bad_id",
     "bad_domain"}

SERVER_ID_UNKNOWN == -1
GTID_DOMAIN_UNKNOWN == -1

\* The sets of at most k failing positions.
RECURSIVE FailSets(_)
FailSets(k) ==
    IF k = 0 THEN {{}}
    ELSE LET fewer == FailSets(k - 1)
         IN fewer \cup {f \cup {i} : f \in fewer, i \in 1..MaxCmds}

Oracles(base) ==
    {[fail |-> f, quirk |-> q, dur |-> d, base |-> base] :
        f \in FailSets(MaxFailures), q \in Quirks, d \in {0, 1}}

Ret(m, ok) == [m |-> m, ok |-> ok]

\* PRINT_MXS_JSON_ERROR(error_out, ...): append one object to the error array.
JsonError(m, text) == [m EXCEPT !.op.errors = Append(@, text)]

\* One message written to a sink ("debug", "error": the log; "json": the
\* error array, which PRINT_MXS_JSON_ERROR also logs), with the command text
\* the message quotes.
Logged(m, sink, quoted) ==
    [m EXCEPT !.op.log = Append(@, [sink |-> sink, quoted |-> quoted])]

\* The error message execute_cmd_ex hands out for the failed command that
\* gave r: "Query '<cmd>' failed on ...", which quotes the command whole.
ErrorMsg(r) == Last(r.m.sent).cmd

\* Texts whose characters matter are sequences of characters. The column
\* DEFINER of information_schema.EVENTS shows an account as user@host.
DefinerColumn(d) == d.user \o <<"@">> \o d.host

\* string::find('@'): the position of the first '@', 0 for npos.
FindAt(text) ==
    IF \E i \in DOMAIN text : text[i] = "@"
    THEN CHOOSE i \in DOMAIN text :
            text[i] = "@" /\ \A j \in 1..(i - 1) : text[j] # "@"
    ELSE 0

\* The account the server reads from the text after DEFINER = : the user
\* ends at the first '@', the host is what follows, without its quotes.
DefinerRead(text) ==
    IF FindAt(text) = 0 THEN [user |-> text, host |-> <<"%">>]
    ELSE [user |-> SubSeq(text, 1, FindAt(text) - 1),
          host |-> SelectSeq(SubSeq(text, FindAt(text) + 1, Len(text)),
                             LAMBDA ch : ch # "'")]

\* What a successfully executed command does to the backend b.
ApplyToBackend(b, c, o) ==
    CASE c.kind = "STOP" ->
           [b EXCEPT !.conns = [i \in DOMAIN @ |->
                IF @[i].name = c.name
                THEN [@[i] EXCEPT !.io = "NO", !.sql = FALSE] ELSE @[i]]]
      [] c.kind = "RESET_ALL" ->
           IF o.quirk = "stuck" THEN b
           ELSE [b EXCEPT !.conns = SelectSeq(@, LAMBDA x : x.name # c.name)]
      [] c.kind = "CHANGE" ->
           IF \E i \in DOMAIN b.conns : b.conns[i].name = c.name
           THEN [b EXCEPT !.conns = [i \in DOMAIN @ |->
                    IF @[i].name = c.name
                    THEN [@[i] EXCEPT !.master_host = c.host,
                                      !.master_port = c.port,
                                      !.using_gtid = "Current_Pos"]
                    ELSE @[i]]]
           ELSE [b EXCEPT !.conns = Append(@,
                    [BackendConn(c.name, c.host, 0, "NO", FALSE)
                        EXCEPT !.master_port = c.port,
                               !.gtid_io_pos = b.gtid_current_pos])]
      [] c.kind = "START" ->
           [b EXCEPT !.conns = [i \in DOMAIN @ |->
                IF @[i].name = c.name
                THEN [@[i] EXCEPT !.io = "YES", !.sql = TRUE,
                          !.master_server_id =
                              ServerIdOfHost(b.conns[i].master_host)]
                ELSE @[i]]]
      [] c.kind = "READ_ONLY" -> [b EXCEPT !.read_only = (c.value = 1)]
      [] c.kind = "FLUSH_LOGS" -> [b EXCEPT !.logs_flushed = TRUE]
      [] c.kind = "KILL" -> [b EXCEPT !.supers = @ \ {c.id}]
      [] c.kind = "SQL_LOG_BIN" -> [b EXCEPT !.sql_log_bin = (c.value = 1)]
      [] c.kind = "ALTER_EVENT" ->
           [b EXCEPT !.events = [e \in DOMAIN @ |->
                IF e = c.event
                THEN (IF c.status = "ENABLE" THEN "ENABLED"
                      ELSE "SLAVESIDE_DISABLED")
                ELSE @[e]],
                     !.definers = [e \in DOMAIN @ |->
                IF e = c.event THEN DefinerRead(c.definer) ELSE @[e]]]
      [] OTHER -> b

\* Hand one command to the connection of server s. `how` tells the
\* primitive used, `limit` the time limit given to it (0 when it takes none).
Send(m, s, c, how, limit, o) ==
    LET ok == (Len(m.sent) + 1 - o.base) \notin o.fail
    IN Ret([m EXCEPT
              !.sent = Append(@, [server |-> s, cmd |-> c, how |-> how,
                                  limit |-> limit, ok |-> ok,
                                  bits |-> m.srv[s].status,
                                  current_pos |->
                                      m.srv[s].backend.gtid_current_pos,
                                  binlog_pos |->
                                      m.srv[s].backend.gtid_binlog_pos]),
              !.now = @ + o.dur,
              !.srv[s].backend = IF ok THEN ApplyToBackend(@, c, o) ELSE @],
           ok)

\* execute_cmd_time_limit as its callers see it: the command is sent (the
\* Cmd* actions model the attempts in detail) and succeeded or not.
execute_cmd_time_limit(m, s, c, time_limit, o) ==
    Send(m, s, c, "time_limit", time_limit, o)

\* execute_cmd: one command under the global query retry settings.
execute_cmd(m, s, c, o) == Send(m, s, c, "cmd", 0, o)

\* execute_query: a query that returns a result set.
execute_query(m, s, c, o) == Send(m, s, c, "query", 0, o)

(***************************************************************************)
(* do_show_slave_status and its helpers                                    *)
(***************************************************************************)
\* general.time_remaining -= timer.lap(), for a stopwatch last read at
\* `since`, after a step with result r.
Lap(r, since) ==
    Ret([r.m EXCEPT !.op.time_remaining = @ - (r.m.now - since)], r.ok)

\* A failed step that is passed on without a report of its own.
OrErrorSilent(r, text) == r

\* A failed step reports `text` on top of what the step itself reported.
OrError(r, text) == IF r.ok THEN r ELSE Ret(JsonError(r.m, text), FALSE)

compare_rows(lhs, rhs) ==
    rhs.master_host = lhs.master_host /\ rhs.master_port = lhs.master_port

\* A lookup that tries guess_ind only and does not scan the array.
FindPreviousAtGuessOnly(old_status, search_row, guess_ind) ==
    IF guess_ind < Len(old_status)
       /\ compare_rows(old_status[guess_ind + 1], search_row)
    THEN <<old_status[guess_ind + 1]>>
    ELSE <<>>

\* The row of old_status for the connection of search_row: the one at
\* guess_ind (0-based) if it matches, else the first that does; <<>> if none.
sstatus_find_previous_row(old_status, search_row, guess_ind) ==
    IF guess_ind < Len(old_status)
       /\ compare_rows(old_status[guess_ind + 1], search_row)
    THEN <<old_status[guess_ind + 1]>>
    ELSE LET hits == {i \in DOMAIN old_status :
                        compare_rows(old_status[i], search_row)}
         IN IF hits = {} THEN <<>>
            ELSE <<old_status[CHOOSE i \in hits : \A k \in hits : i <= k]>>

\* A comparison that leaves the master server id out.
TopologyEqualButServerId(old_status, new_status) ==
    /\ Len(old_status) = Len(new_status)
    /\ \A i \in DOMAIN old_status :
          /\ new_status[i].slave_io_running = old_status[i].slave_io_running
          /\ new_status[i].slave_sql_running = old_status[i].slave_sql_running
          /\ new_status[i].master_host = old_status[i].master_host
          /\ new_status[i].master_port = old_status[i].master_port

sstatus_array_topology_equal(old_status, new_status) ==
    /\ Len(old_status) = Len(new_status)
    /\ \A i \in DOMAIN old_status :
          /\ new_status[i].slave_io_running = old_status[i].slave_io_running
          /\ new_status[i].slave_sql_running = old_status[i].slave_sql_running
          /\ new_status[i].master_host = old_status[i].master_host
          /\ new_status[i].master_port = old_status[i].master_port
          /\ new_status[i].master_server_id = old_status[i].master_server_id

\* The fields of a new row that are read from result row c.
RowOf(c, all_slaves_status, t) ==
    [NewSlaveStatus(t) EXCEPT
        !.master_host = c.master_host,
        !.master_port = c.master_port,
        !.slave_io_running = c.io,
        !.slave_sql_running = c.sql,
        !.master_server_id = c.master_server_id,
        !.name = IF all_slaves_status THEN c.name ELSE @,
        !.received_heartbeats =
            IF all_slaves_status THEN c.received_heartbeats ELSE @,
        !.gtid_io_pos =
            IF all_slaves_status /\ c.gtid_io_pos # NoGtid
               /\ c.using_gtid \in {"Current_Pos", "Slave_Pos"}
            THEN c.gtid_io_pos ELSE @]

\* A merge that never takes the time of the previous row.
CarryNothing(new_row, old_row) == new_row

\* last_data_time is kept from the previous row when neither the heartbeats
\* nor the gtid io position moved.
CarryDataTime(new_row, old_row) ==
    IF old_row # <<>>
       /\ new_row.received_heartbeats = old_row[1].received_heartbeats
       /\ new_row.gtid_io_pos = old_row[1].gtid_io_pos
    THEN [new_row EXCEPT !.last_data_time = old_row[1].last_data_time]
    ELSE new_row

\* A latch that does not compare the master id with the one seen before.
LatchIgnoringMasterId(new_row, old_row) ==
    IF new_row.slave_io_running = "YES"
       \/ (new_row.slave_io_running = "CONNECTING" /\ old_row # <<>>
           /\ old_row[1].seen_connected)
    THEN [new_row EXCEPT !.seen_connected = TRUE]
    ELSE new_row

\* seen_connected: set by a running io thread, kept through CONNECTING when
\* the master id is the one seen before.
LatchSeenConnected(new_row, old_row) ==
    IF new_row.slave_io_running = "YES"
    THEN [new_row EXCEPT !.seen_connected = TRUE]
    ELSE IF new_row.slave_io_running = "CONNECTING" /\ old_row # <<>>
            /\ new_row.master_server_id = old_row[1].master_server_id
            /\ old_row[1].seen_connected
         THEN [new_row EXCEPT !.seen_connected = TRUE]
         ELSE new_row

MergeWithPrevious(new_row, old_row) ==
    LatchSeenConnected(CarryDataTime(new_row, old_row), old_row)

\* The SlaveStatus built from result row c, given the rows built before it.
BuildRow(old_status, c, all_slaves_status, built, t) ==
    MergeWithPrevious(RowOf(c, all_slaves_status, t),
                      sstatus_find_previous_row(old_status,
                          RowOf(c, all_slaves_status, t), Len(built)))

RECURSIVE BuildRows(_, _, _, _, _)
BuildRows(old_status, rows, all_slaves_status, built, t) ==
    IF rows = <<>> THEN built
    ELSE BuildRows(old_status, Tail(rows), all_slaves_status,
                   Append(built, BuildRow(old_status, Head(rows),
                                          all_slaves_status, built, t)), t)

\* The end of do_show_slave_status: the new array replaces the old one.
PublishSlaveStatus(a, slave_status_new) ==
    [a EXCEPT
        !.topology_changed =
            IF sstatus_array_topology_equal(a.slave_status, slave_status_new)
            THEN @ ELSE TRUE,
        !.slave_status = slave_status_new]

\* Which query do_show_slave_status sends.
AllSlavesStatus(a) == a.capabilities.gtid \/ a.srv_type = "BINLOG_ROUTER"

\* The columns do_show_slave_status asks of its result.
ColumnsAlways42(a) == 42

ExpectedColumns(a) == IF AllSlavesStatus(a) THEN 42 ELSE 40

\* get_col_count of the result: that of the full result of the query unless
\* the oracle gives another.
ColCount(a, o) ==
    CASE o.quirk = "cols39" -> 39
      [] o.quirk = "cols40" -> 40
      [] o.quirk = "cols41" -> 41
      [] OTHER -> ExpectedColumns(a)

\* do_show_slave_status once the query has answered with q: a result with
\* too few columns or without a required column is turned down.
ShowSlaveStatusResult(s, o, q) ==
    IF \/ ~q.ok
       \/ ColCount(q.m.srv[s], o) < ExpectedColumns(q.m.srv[s])
       \/ o.quirk = "nocolumn"
    THEN Ret(q.m, FALSE)
    ELSE Ret([q.m EXCEPT !.srv[s] =
                 PublishSlaveStatus(@,
                     BuildRows(@.slave_status,
                               IF AllSlavesStatus(@) THEN @.backend.conns
                               ELSE SelectSeq(@.backend.conns,
                                              LAMBDA x : x.name = ""),
                               AllSlavesStatus(@), <<>>, q.m.now))],
             TRUE)

do_show_slave_status(m, s, o) ==
    IF ~AllSlavesStatus(m.srv[s]) /\ ~m.srv[s].capabilities.basic_support
    THEN Ret(m, FALSE)
    ELSE ShowSlaveStatusResult(s, o,
            execute_query(m, s,
                [kind |-> IF AllSlavesStatus(m.srv[s])
                          THEN "SHOW_ALL_SLAVES_STATUS"
                          ELSE "SHOW_SLAVE_STATUS"], o))

\* update_gtids once the query has answered with q: on success the cached
\* positions are the backend's.
UpdateGtidsResult(s, o, q) ==
    IF ~q.ok THEN Ret(q.m, FALSE)
    ELSE IF o.quirk = "norow"
    THEN Ret([q.m EXCEPT !.srv[s].gtid_current_pos = NoGtid,
                         !.srv[s].gtid_binlog_pos = NoGtid], TRUE)
    ELSE Ret([q.m EXCEPT
                !.srv[s].gtid_current_pos = q.m.srv[s].backend.gtid_current_pos,
                !.srv[s].gtid_binlog_pos = q.m.srv[s].backend.gtid_binlog_pos],
             TRUE)

update_gtids(m, s, o) ==
    UpdateGtidsResult(s, o, execute_query(m, s, [kind |-> "SELECT_GTIDS"], o))

(***************************************************************************)
(* stop_slave_conn, remove_slave_conns                                     *)
(***************************************************************************)
\* stop_slave_conn after its STOP SLAVE, which started at time t0 and gave r1.
StopSlaveStopped(s, conn_name, mode, time_limit, t0, o, r1) ==
    IF ~r1.ok
    THEN Ret(JsonError(r1.m, "Failed to stop slave connection"), FALSE)
    ELSE IF mode \in {"RESET", "RESET_ALL"}
         THEN OrError(execute_cmd_time_limit(r1.m, s,
                          [kind |-> mode, name |-> conn_name],
                          time_limit - (r1.m.now - t0), o),
                      "Failed to reset slave connection")
         ELSE r1

stop_slave_conn(m, s, conn_name, mode, time_limit, o) ==
    StopSlaveStopped(s, conn_name, mode, time_limit, m.now, o,
        execute_cmd_time_limit(m, s, [kind |-> "STOP", name |-> conn_name],
                               time_limit, o))

\* The stop loop of remove_slave_conns from index i on; time_remaining is
\* reduced by the lap of each iteration.
RECURSIVE StopLoop(_, _, _, _, _)
RECURSIVE StopLoopNext(_, _, _, _, _)
StopLoopNext(s, conns_to_remove, i, o, r) ==
    IF ~r.ok THEN r ELSE StopLoop(r.m, s, conns_to_remove, i + 1, o)

StopLoop(m, s, conns_to_remove, i, o) ==
    IF i > Len(conns_to_remove) THEN Ret(m, TRUE)
    ELSE StopLoopNext(s, conns_to_remove, i, o,
            Lap(stop_slave_conn(m, s, conns_to_remove[i].name, "RESET_ALL",
                                m.op.time_remaining, o), m.now))

\* The end of remove_slave_conns: none of the removed names may be left in
\* the slave status just read (shown).
RemoveCheck(s, conns_to_remove_copy, shown) ==
    IF ~shown.ok
    THEN Ret(JsonError(shown.m, "Failed to update slave connections"), FALSE)
    ELSE IF \E i \in DOMAIN conns_to_remove_copy :
              \E k \in DOMAIN shown.m.srv[s].slave_status :
                 shown.m.srv[s].slave_status[k].name
                     = conns_to_remove_copy[i].name
         THEN Ret(JsonError(shown.m, "still has removed slave connections"),
                  FALSE)
         ELSE shown

\* remove_slave_conns after its stop loop.
RemoveStopped(s, conns_to_remove_copy, o, stopped) ==
    IF ~stopped.ok
    THEN Ret(JsonError(stopped.m, "Failed to remove slave connection(s)"),
             FALSE)
    ELSE RemoveCheck(s, conns_to_remove_copy,
                     Lap(do_show_slave_status(stopped.m, s, o), stopped.m.now))

\* A removal that trusts the STOP and RESET commands and reads nothing back.
RemoveWithoutReread(m, s, conns_to_remove, o) ==
    StopLoop(m, s, conns_to_remove, 1, o)

remove_slave_conns(m, s, conns_to_remove, o) ==
    RemoveStopped(s, conns_to_remove, o, StopLoop(m, s, conns_to_remove, 1, o))

(***************************************************************************)
(* set_read_only, kick_out_super_users, events, sql files                  *)
(***************************************************************************)
\* error_out is TRUE when the caller passes the error array, FALSE for NULL.
ReadOnlyResult(setting, error_out, r) ==
    IF r.ok \/ ~error_out THEN r
    ELSE Ret(JsonError(r.m, IF setting = "ENABLE"
                            THEN "Failed to enable read_only"
                            ELSE "Failed to disable read_only"), FALSE)

set_read_only(m, s, setting, time_limit, error_out, o) ==
    ReadOnlyResult(setting, error_out,
        execute_cmd_time_limit(m, s,
            [kind |-> "READ_ONLY",
             value |-> IF setting = "ENABLE" THEN 1 ELSE 0], time_limit, o))

\* The elements of a set of integers in increasing order.
RECURSIVE Ascending(_)
Ascending(S) ==
    IF S = {} THEN <<>>
    ELSE <<CHOOSE y \in S : \A z \in S : y <= z>>
         \o Ascending(S \ {CHOOSE y \in S : \A z \in S : y <= z})

\* The KILL loop over the rows of the super-user query; time_remaining is the
\* function's own copy of the budget.
RECURSIVE KillLoop(_, _, _, _, _, _)
RECURSIVE KillNext(_, _, _, _, _, _, _)
KillNext(t0, s, ids, time_remaining, error, o, r) ==
    KillLoop(IF r.ok THEN r.m ELSE JsonError(r.m, "Could not kill connection"),
             s, ids, time_remaining - (r.m.now - t0), error \/ ~r.ok, o)

KillLoop(m, s, ids, time_remaining, error, o) ==
    IF ids = <<>> THEN Ret(m, ~error)
    ELSE KillNext(m.now, s, Tail(ids), time_remaining, error, o,
            execute_cmd_time_limit(m, s, [kind |-> "KILL", id |-> Head(ids)],
                                   time_remaining, o))

\* A kick that takes every failure of the query for an error.
KickDeniedIsError(s, o, res) ==
    IF res.ok
    THEN KillLoop(res.m, s, Ascending(res.m.srv[s].backend.supers),
                  res.m.op.time_remaining, FALSE, o)
    ELSE Ret(JsonError(res.m, "Could not query connected super-users"), FALSE)

\* kick_out_super_users once the query for the super-users has answered.
KickQueried(s, o, res) ==
    IF res.ok
    THEN KillLoop(res.m, s, Ascending(res.m.srv[s].backend.supers),
                  res.m.op.time_remaining, FALSE, o)
    ELSE IF o.quirk = "denied"
         THEN Ret(res.m, TRUE)
         ELSE Ret(JsonError(res.m, "Could not query connected super-users"),
                  FALSE)

kick_out_super_users(m, s, o) ==
    KickQueried(s, o, execute_query(m, s, [kind |-> "SELECT_SUPER_USERS"], o))

\* STOP SLAVE and, if that succeeded, RESET SLAVE ALL for one connection, as
\* the condition of the loop of reset_all_slave_conns evaluates them.
StopThenReset(s, name, o, stopped) ==
    IF ~stopped.ok THEN stopped
    ELSE execute_cmd(stopped.m, s, [kind |-> "RESET_ALL", name |-> name], o)

RECURSIVE ResetLoop(_, _, _, _, _)
\* A loop step that reports a failure and goes on with the next connection.
ResetNextNoBreak(s, conns, i, o, r) ==
    IF r.ok THEN ResetLoop(r.m, s, conns, i + 1, o)
    ELSE Ret(ResetLoop(JsonError(r.m, "Error when reseting the slave connection"),
                       s, conns, i + 1, o).m, FALSE)

ResetNext(s, conns, i, o, r) ==
    IF r.ok THEN ResetLoop(r.m, s, conns, i + 1, o)
    ELSE Ret(JsonError(r.m, "Error when reseting the slave connection"), FALSE)

ResetLoop(m, s, conns, i, o) ==
    IF i > Len(conns) THEN Ret(m, TRUE)
    ELSE ResetNext(s, conns, i, o,
            StopThenReset(s, conns[i].name, o,
                execute_cmd(m, s, [kind |-> "STOP", name |-> conns[i].name], o)))

reset_all_slave_conns(m, s, o) ==
    ResetLoop(m, s, m.srv[s].slave_status, 1, o)

\* The scheduled events a backend can hold, in the order a query lists them.
EventOrder == <<"db.ev1", "db.ev2">>

\* quoted_definer of alter_event: the part after the first '@' is put into
\* quotes; a definer without '@' is taken as it is.
QuotedDefiner(definer) ==
    IF FindAt(definer) = 0 THEN definer
    ELSE SubSeq(definer, 1, FindAt(definer)) \o <<"'">>
         \o SubSeq(definer, FindAt(definer) + 1, Len(definer)) \o <<"'">>

alter_event(m, s, event, target_status, o) ==
    OrError(execute_cmd(m, s,
                [kind |-> "ALTER_EVENT", event |-> event,
                 definer |-> QuotedDefiner(
                     DefinerColumn(m.srv[s].backend.definers[event])),
                 status |-> target_status], o),
            "Could not alter event")

\* Whether the manipulator acts on event e: the enabler on the named events
\* that are disabled, the disabler on the enabled ones.
EventMatches(e, events, names, target_status) ==
    IF target_status = "ENABLE"
    THEN e \in names /\ events[e] \in {"SLAVESIDE_DISABLED", "DISABLED"}
    ELSE events[e] = "ENABLED"

\* events_foreach with the enabler (names = the set to enable,
\* target_status "ENABLE") or the disabler (target_status "DISABLE ON SLAVE")
\* as manipulator, over the rows `events` read by the query, from index i.
\* Returns the machine state and the two counters.
RECURSIVE ManipulateEvents(_, _, _, _, _, _, _, _, _)
RECURSIVE ManipulateNext(_, _, _, _, _, _, _, _, _)
ManipulateNext(s, events, i, names, target_status, found, altered, o, r) ==
    ManipulateEvents(r.m, s, events, i + 1, names, target_status, found + 1,
                     IF r.ok THEN altered + 1 ELSE altered, o)

ManipulateEvents(m, s, events, i, names, target_status, found, altered, o) ==
    IF i > Len(EventOrder) THEN [m |-> m, found |-> found, altered |-> altered]
    ELSE IF ~EventMatches(EventOrder[i], events, names, target_status)
         THEN ManipulateEvents(m, s, events, i + 1, names, target_status,
                               found, altered, o)
         ELSE ManipulateNext(s, events, i, names, target_status, found,
                             altered, o,
                             alter_event(m, s, EventOrder[i], target_status, o))

\* The check of the counters after events_foreach; warn_event_scheduler sends
\* one more query when an event was found.
CheckCounters(s, o, done) ==
    Ret(IF done.found > 0
        THEN execute_query(done.m, s, [kind |-> "SELECT_EVENT_SCHEDULER"], o).m
        ELSE done.m,
        done.found = done.altered)

\* events_foreach once the query for the events has answered.
ForeachQueried(s, names, target_status, o, q) ==
    IF ~q.ok THEN Ret(q.m, FALSE)
    ELSE CheckCounters(s, o,
            ManipulateEvents(q.m, s, q.m.srv[s].backend.events, 1, names,
                             target_status, 0, 0, o))

ForeachAndCheck(m, s, names, target_status, o) ==
    ForeachQueried(s, names, target_status, o,
                   execute_query(m, s, [kind |-> "SELECT_EVENTS"], o))

enable_events(m, s, event_names, o) ==
    ForeachAndCheck(m, s, event_names, "ENABLE", o)

\* An end of disable_events that fails when the session binlog cannot be
\* switched back on.
RestoreBinlogOrFail(s, o, r) ==
    Ret(execute_cmd(r.m, s, [kind |-> "SQL_LOG_BIN", value |-> 1], o).m,
        r.ok /\ execute_cmd(r.m, s, [kind |-> "SQL_LOG_BIN", value |-> 1], o).ok)

\* The end of disable_events with BINLOG_OFF: the session binlog is switched
\* back on, whatever the result r of the disabling was.
RestoreBinlog(s, o, r) ==
    Ret(execute_cmd(r.m, s, [kind |-> "SQL_LOG_BIN", value |-> 1], o).m, r.ok)

\* disable_events with BINLOG_OFF after the session binlog was switched off.
DisableBinlogOff(s, o, off) ==
    IF ~off.ok
    THEN Ret(JsonError(off.m, "Could not disable session binlog"), FALSE)
    ELSE RestoreBinlog(s, o,
            ForeachAndCheck(off.m, s, {}, "DISABLE ON SLAVE", o))

disable_events(m, s, binlog_mode, o) ==
    IF binlog_mode = "BINLOG_OFF"
    THEN DisableBinlogOff(s, o,
            execute_cmd(m, s, [kind |-> "SQL_LOG_BIN", value |-> 0], o))
    ELSE ForeachAndCheck(m, s, {}, "DISABLE ON SLAVE", o)

\* The lines of the sql file of a plan: a comment, an empty line, a query.
SqlFileLines == <<"#", "", "query">>

RECURSIVE RunLines(_, _, _, _)
RECURSIVE RunNext(_, _, _, _)
RunNext(s, lines, o, r) ==
    IF r.ok THEN RunLines(r.m, s, lines, o)
    ELSE Ret(JsonError(r.m, "Failed to execute sql from text file"), FALSE)

RunLines(m, s, lines, o) ==
    IF lines = <<>> THEN Ret(m, TRUE)
    ELSE IF Head(lines) = "" \/ Head(lines) = "#"
         THEN RunLines(m, s, Tail(lines), o)
         ELSE RunNext(s, Tail(lines), o,
                 Send(m, s, [kind |-> "FILE_LINE", line |-> Head(lines)],
                      "file", 0, o))

run_sql_from_file(m, s, path, o) ==
    IF o.quirk = "nofile"
    THEN Ret(JsonError(m, "Could not open sql text file"), FALSE)
    ELSE RunLines(m, s, SqlFileLines, o)

(***************************************************************************)
(* demote. Each Demote* below is demote from one point on, given the       *)
(* result r of what ran up to that point.                                  *)
(***************************************************************************)
clear_status(m, s, bits) == [m EXCEPT !.srv[s].status = @ \ bits]

\* The restore at the end of demote: after an error, read_only=0 is sent to
\* a server demoted from master, with no time limit and no error array.
DemoteRestore(s, demotion, o, r) ==
    IF ~r.ok /\ demotion.to_from_master
    THEN Ret(set_read_only(r.m, s, "DISABLE", 0, FALSE, o).m, FALSE)
    ELSE r

\* A demote that reports success whatever happened.
DemoteFinishAlwaysOk(s, demotion, o, r) == Ret(r.m, TRUE)

\* The gtid update, when no step failed.
DemoteFinish(s, demotion, o, r) ==
    IF r.ok
    THEN DemoteRestore(s, demotion, o,
            OrError(update_gtids(r.m, s, o), "Failed to update gtid:s"))
    ELSE DemoteRestore(s, demotion, o, r)

\* Step 2f, FLUSH LOGS.
DemoteAfterFile(s, demotion, o, r) ==
    IF ~r.ok THEN DemoteFinish(s, demotion, o, r)
    ELSE DemoteFinish(s, demotion, o,
            Lap(OrError(execute_cmd_time_limit(r.m, s, [kind |-> "FLUSH_LOGS"],
                                               r.m.op.time_remaining, o),
                        "Failed to flush binary logs"), r.m.now))

\* Step 2e, the demotion sql file.
DemoteAfterEvents(s, demotion, o, r) ==
    IF r.ok /\ demotion.sql_file # ""
    THEN DemoteAfterFile(s, demotion, o,
            Lap(OrError(run_sql_from_file(r.m, s, demotion.sql_file, o),
                        "Execution of file failed during demotion"), r.m.now))
    ELSE DemoteAfterFile(s, demotion, o, r)

\* A demote that disables the events whether or not read_only was set.
DemoteEventsUnchecked(s, demotion, o, r) ==
    DemoteAfterEvents(s, demotion, o,
        Lap(OrError(disable_events(r.m, s, "BINLOG_OFF", o),
                    "Failed to disable events"), r.m.now))

\* Step 2d, the events.
DemoteAfterReadOnly(s, demotion, o, r) ==
    IF r.ok /\ demotion.handle_events
    THEN DemoteAfterEvents(s, demotion, o,
            Lap(OrError(disable_events(r.m, s, "BINLOG_OFF", o),
                        "Failed to disable events"), r.m.now))
    ELSE DemoteAfterEvents(s, demotion, o, r)

\* Step 2c, read_only. The stopwatch of demote starts here, after the kick.
DemoteAfterKick(s, demotion, o, r) ==
    IF r.ok
    THEN DemoteAfterReadOnly(s, demotion, o,
            Lap(set_read_only(r.m, s, "ENABLE", r.m.op.time_remaining, TRUE, o),
                r.m.now))
    ELSE DemoteAfterReadOnly(s, demotion, o, r)

\* A demote that takes the MASTER bit away only once the super-users are
\* gone.
ClearedIfKicked(s, k) ==
    IF k.ok THEN Ret(clear_status(k.m, s, {"MASTER"}), TRUE) ELSE k

DemoteClearsAfterKick(s, demotion, o, r) ==
    IF ~r.ok THEN r
    ELSE IF demotion.to_from_master
         THEN DemoteAfterKick(s, demotion, o,
                 ClearedIfKicked(s, kick_out_super_users(r.m, s, o)))
         ELSE DemoteFinish(s, demotion, o, r)

\* Steps 2a and 2b, for a server demoted from master.
DemoteAfterRemove(s, demotion, o, r) ==
    IF ~r.ok THEN r
    ELSE IF demotion.to_from_master
         THEN DemoteAfterKick(s, demotion, o,
                 kick_out_super_users(clear_status(r.m, s, {"MASTER"}), s, o))
         ELSE DemoteFinish(s, demotion, o, r)

demote(m, s, demotion, o) ==
    DemoteAfterRemove(s, demotion, o,
        remove_slave_conns(m, s, m.srv[s].slave_status, o))

(***************************************************************************)
(* Creating and redirecting slave connections                              *)
(***************************************************************************)
\* SlaveStatus::should_be_copied: the connection is running, or has been
\* seen running, towards a known master.
should_be_copied(conn) ==
    conn.slave_sql_running /\ conn.seen_connected /\ conn.master_server_id > 0

generate_change_master_cmd(m, slave_conn) ==
    [kind |-> "CHANGE", name |-> slave_conn.name,
     host |-> slave_conn.master_host, port |-> slave_conn.master_port,
     use_gtid |-> "current_pos", ssl |-> m.op.replication_ssl,
     user |-> m.op.replication_user, password |-> m.op.replication_password]

\* The debug message of generate_change_master_cmd: the command with the
\* password replaced by stars.
ChangeMasterDebugLogged(m, slave_conn) ==
    Logged(m, "debug",
           [generate_change_master_cmd(m, slave_conn) EXCEPT !.password = "******"])

\* A failed step of create_start_slave logs the error message of its command.
CreateFailureLogged(r) ==
    IF r.ok THEN r ELSE Ret(Logged(r.m, "error", ErrorMsg(r)), FALSE)

\* create_start_slave after its CHANGE MASTER TO.
CreateChanged(s, slave_conn, o, r) ==
    IF ~r.ok THEN CreateFailureLogged(r)
    ELSE CreateFailureLogged(
            Lap(execute_cmd_time_limit(r.m, s,
                    [kind |-> "START", name |-> slave_conn.name],
                    r.m.op.time_remaining, o), r.m.now))

create_start_slave(m, s, slave_conn, o) ==
    CreateChanged(s, slave_conn, o,
        Lap(execute_cmd_time_limit(ChangeMasterDebugLogged(m, slave_conn), s,
                                   generate_change_master_cmd(m, slave_conn),
                                   m.op.time_remaining, o), m.now))

\* The connection copy_slave_conns creates for slave_conn: one that points
\* at the copying server itself is pointed at the replacement.
ConnToCopy(a, slave_conn, replacement) ==
    IF slave_conn.master_server_id = a.server_id
    THEN [slave_conn EXCEPT !.master_host = Address(replacement),
                            !.master_port = Port(replacement)]
    ELSE slave_conn

RECURSIVE CopyLoop(_, _, _, _, _, _)
RECURSIVE CopyNext(_, _, _, _, _, _)
CopyNext(s, conns_to_copy, replacement, i, o, r) ==
    IF ~r.ok THEN r
    ELSE CopyLoop(r.m, s, conns_to_copy, replacement, i + 1, o)

CopyLoop(m, s, conns_to_copy, replacement, i, o) ==
    IF i > Len(conns_to_copy) THEN Ret(m, TRUE)
    ELSE IF ~should_be_copied(conns_to_copy[i])
         THEN CopyLoop(m, s, conns_to_copy, replacement, i + 1, o)
         ELSE CopyNext(s, conns_to_copy, replacement, i, o,
                 create_start_slave(m, s,
                     ConnToCopy(m.srv[s], conns_to_copy[i], replacement), o))

\* mxb_assert(m_slave_status.empty()) at the start of copy_slave_conns: a
\* failed assertion aborts a debug build and goes unnoticed in a release
\* build; the model notes the failure in the log and goes on.
SlaveStatusEmptyAsserted(m, s) ==
    IF m.srv[s].slave_status = <<>> THEN m
    ELSE Logged(m, "assert", [kind |-> "mxb_assert", server |-> s])

copy_slave_conns(m, s, conns_to_copy, replacement, o) ==
    CopyLoop(SlaveStatusEmptyAsserted(m, s), s, conns_to_copy, replacement,
             1, o)

\* A helper that compares with the connections of server s by host and port
\* only.
MergedUnlessSameHost(a, s, slave_conn) ==
    /\ should_be_copied(slave_conn)
    /\ slave_conn.master_server_id # a.server_id
    /\ ~(slave_conn.master_host = Address(s) /\ slave_conn.master_port = Port(s))
    /\ \A i \in DOMAIN a.slave_status :
          ~(a.slave_status[i].master_host = slave_conn.master_host
            /\ a.slave_status[i].master_port = slave_conn.master_port)

\* The helper of merge_slave_conns that decides whether a connection of the
\* failed master is merged into the connections of server s.
conn_can_be_merged(a, s, slave_conn) ==
    /\ should_be_copied(slave_conn)
    /\ slave_conn.master_server_id # a.server_id
    /\ ~(slave_conn.master_host = Address(s) /\ slave_conn.master_port = Port(s))
    /\ \A i \in DOMAIN a.slave_status :
          /\ ~(a.slave_status[i].seen_connected
               /\ a.slave_status[i].master_server_id = slave_conn.master_server_id)
          /\ ~(a.slave_status[i].master_host = slave_conn.master_host
               /\ a.slave_status[i].master_port = slave_conn.master_port)

\* The name check_modify_conn_name generates for a connection.
GeneratedName(slave_conn) ==
    "To [" \o slave_conn.master_host \o "]:" \o ToString(slave_conn.master_port)

\* A name check that leaves every connection its own name.
NameKept(slave_conn, connection_names) == slave_conn.name

\* The name check_modify_conn_name leaves a connection with.
MergedName(slave_conn, connection_names) ==
    IF slave_conn.name \in connection_names
    THEN GeneratedName(slave_conn) ELSE slave_conn.name

RECURSIVE MergeLoop(_, _, _, _, _, _)
RECURSIVE MergeNext(_, _, _, _, _, _)
MergeNext(s, conns_to_merge, connection_names, i, o, r) ==
    IF ~r.ok THEN r
    ELSE MergeLoop(r.m, s, conns_to_merge, connection_names, i + 1, o)

MergeLoop(m, s, conns_to_merge, connection_names, i, o) ==
    IF i > Len(conns_to_merge) THEN Ret(m, TRUE)
    ELSE IF ~conn_can_be_merged(m.srv[s], s, conns_to_merge[i])
         THEN MergeLoop(m, s, conns_to_merge, connection_names, i + 1, o)
         ELSE IF conns_to_merge[i].name \in connection_names
                 /\ GeneratedName(conns_to_merge[i]) \in connection_names
              THEN Ret(m, FALSE)
              ELSE MergeNext(s, conns_to_merge,
                      connection_names
                          \cup {MergedName(conns_to_merge[i], connection_names)},
                      i, o,
                      create_start_slave(m, s,
                          [conns_to_merge[i] EXCEPT
                              !.name = MergedName(conns_to_merge[i],
                                                  connection_names)], o))

merge_slave_conns(m, s, conns_to_merge, o) ==
    MergeLoop(m, s, conns_to_merge,
              {m.srv[s].slave_status[i].name : i \in DOMAIN m.srv[s].slave_status},
              1, o)

\* redirect_existing_slave_conn after its CHANGE MASTER TO.
\* A failed step of redirect_existing_slave_conn puts the error message of
\* its command into the json error.
RedirectUnreported(r, text) == IF r.ok THEN r ELSE Ret(r.m, FALSE)

RedirectFailureReported(r, text) ==
    IF r.ok THEN r
    ELSE Ret(Logged(JsonError(r.m, text), "json", ErrorMsg(r)), FALSE)

RedirectChanged(s, old_conn, o, r) ==
    IF ~r.ok THEN RedirectFailureReported(r, "could not be redirected")
    ELSE RedirectFailureReported(
            Lap(execute_cmd_time_limit(r.m, s,
                    [kind |-> "START", name |-> old_conn.name],
                    r.m.op.time_remaining, o), r.m.now),
            "could not be started")

\* redirect_existing_slave_conn after its STOP SLAVE.
RedirectStopped(s, old_conn, new_master, o, r) ==
    IF ~r.ok THEN r
    ELSE RedirectChanged(s, old_conn, o,
            Lap(execute_cmd_time_limit(
                    ChangeMasterDebugLogged(r.m,
                        [old_conn EXCEPT !.master_host = Address(new_master),
                                         !.master_port = Port(new_master)]),
                    s,
                    generate_change_master_cmd(r.m,
                        [old_conn EXCEPT !.master_host = Address(new_master),
                                         !.master_port = Port(new_master)]),
                    r.m.op.time_remaining, o), r.m.now))

redirect_existing_slave_conn(m, s, old_conn, new_master, o) ==
    RedirectStopped(s, old_conn, new_master, o,
        Lap(stop_slave_conn(m, s, old_conn.name, "STOP_ONLY",
                            m.op.time_remaining, o), m.now))

(***************************************************************************)
(* promote. Each Promote* below is promote from one point on, given the    *)
(* result r of what ran up to that point.                                  *)
(***************************************************************************)
\* The rows of agent a that are a running connection to `target`.
ConnsTo(a, target_agent, target) ==
    IF a.assume_unique_hostnames
    THEN {i \in DOMAIN a.slave_status :
            /\ a.slave_status[i].master_host = Address(target)
            /\ a.slave_status[i].master_port = Port(target)
            /\ a.slave_status[i].slave_sql_running
            /\ a.slave_status[i].slave_io_running # "NO"}
    ELSE {i \in DOMAIN a.slave_status :
            /\ a.slave_status[i].master_server_id > 0
            /\ a.slave_status[i].master_server_id = target_agent.server_id
            /\ a.slave_status[i].slave_sql_running
            /\ a.slave_status[i].seen_connected
            /\ a.slave_status[i].slave_io_running # "NO"}

\* The slave connection of server s to the server `target`: <<row>> or <<>>.
slave_connection_status(m, s, target) ==
    IF ConnsTo(m.srv[s], m.srv[target], target) = {} THEN <<>>
    ELSE <<m.srv[s].slave_status[
              CHOOSE i \in ConnsTo(m.srv[s], m.srv[target], target) :
                 \A k \in ConnsTo(m.srv[s], m.srv[target], target) : i <= k]>>

\* A promote that creates no connection.
PromoteWithoutCopy(m, s, promotion, type, demotion_target, o) == Ret(m, TRUE)

\* Step 3 of promote.
PromoteCopyOrMerge(m, s, promotion, type, demotion_target, o) ==
    IF type = "SWITCHOVER"
    THEN OrError(copy_slave_conns(m, s, promotion.conns_to_copy,
                                  demotion_target, o),
                 "Could not copy slave connections")
    ELSE OrError(merge_slave_conns(m, s, promotion.conns_to_copy, o),
                 "Could not merge slave connections")

PromoteAfterFile(s, promotion, type, demotion_target, o, r) ==
    IF ~r.ok THEN r
    ELSE PromoteCopyOrMerge(r.m, s, promotion, type, demotion_target, o)

\* The promotion sql file.
PromoteAfterEvents(s, promotion, type, demotion_target, o, r) ==
    IF r.ok /\ promotion.sql_file # ""
    THEN PromoteAfterFile(s, promotion, type, demotion_target, o,
            Lap(OrError(run_sql_from_file(r.m, s, promotion.sql_file, o),
                        "Execution of file failed during promotion"), r.m.now))
    ELSE PromoteAfterFile(s, promotion, type, demotion_target, o, r)

\* The events of the old master.
PromoteAfterReadOnly(s, promotion, type, demotion_target, o, r) ==
    IF r.ok /\ promotion.handle_events
    THEN PromoteAfterEvents(s, promotion, type, demotion_target, o,
            Lap(OrError(enable_events(r.m, s, promotion.events_to_enable, o),
                        "Failed to enable events"), r.m.now))
    ELSE PromoteAfterEvents(s, promotion, type, demotion_target, o, r)

\* Step 2 of promote, for a server promoted to master. The stopwatch of
\* promote was started at time t0, before step 1.
PromoteAfterRemove(t0, s, promotion, type, demotion_target, o, r) ==
    IF ~r.ok THEN r
    ELSE IF promotion.to_from_master
         THEN PromoteAfterReadOnly(s, promotion, type, demotion_target, o,
                 Lap(set_read_only(r.m, s, "DISABLE", r.m.op.time_remaining,
                                   TRUE, o), t0))
         ELSE PromoteCopyOrMerge(r.m, s, promotion, type, demotion_target, o)

\* A promote that removes every connection, whatever the operation type.
PromoteRemoveAll(m, s, type, master_conn, o) ==
    remove_slave_conns(m, s, m.srv[s].slave_status, o)

\* Step 1 of promote: which connections are removed.
PromoteRemove(m, s, type, master_conn, o) ==
    IF type = "SWITCHOVER"
    THEN remove_slave_conns(m, s, m.srv[s].slave_status, o)
    ELSE remove_slave_conns(m, s, master_conn, o)

\* promote once the connection to the demotion target was looked up.
PromoteFrom(m, s, promotion, type, demotion_target, o, master_conn) ==
    IF master_conn = <<>>
    THEN Ret(JsonError(m, "is not a slave of the demotion target"), FALSE)
    ELSE PromoteAfterRemove(m.now, s, promotion, type, demotion_target, o,
            PromoteRemove(m, s, type, master_conn, o))

promote(m, s, promotion, type, demotion_target, o) ==
    PromoteFrom(m, s, promotion, type, demotion_target, o,
                slave_connection_status(m, s, demotion_target))

(***************************************************************************)
(* catchup_to_master. The clock of the operations counts units of 100 ms.  *)
(***************************************************************************)
\* Duration sleep_time(0.2)
CatchupFirstSleep == 2
\* sleep_time += Duration(0.1)
CatchupSleepStep == 1

\* GtidList::events_ahead with MISSING_DOMAIN_IGNORE: the events of self that
\* rhs lacks, summed over the domains both have.
AheadIn(t, rhs) ==
    IF \E u \in rhs : u.domain = t.domain /\ t.sequence > u.sequence
    THEN t.sequence - (CHOOSE u \in rhs : u.domain = t.domain).sequence
    ELSE 0

RECURSIVE SumAhead(_, _)
SumAhead(todo, rhs) ==
    IF todo = {} THEN 0
    ELSE AheadIn(CHOOSE x \in todo : TRUE, rhs)
         + SumAhead(todo \ {CHOOSE x \in todo : TRUE}, rhs)

\* The width of a sequence number and of the sum events_ahead returns, in
\* bits; the program has 64.
SeqBits == 3

\* The result of events_ahead is an unsigned number of that width.
events_ahead(self, rhs) == SumAhead(self, rhs) % (2 ^ SeqBits)

\* A catchup that always compares gtid_binlog_pos.
CatchupPositionAlwaysBinlog(a) == a.gtid_binlog_pos

\* The position catchup_to_master compares with the target.
CatchupPosition(a) ==
    IF a.rpl_settings.log_bin /\ a.rpl_settings.log_slave_updates
    THEN a.gtid_binlog_pos ELSE a.gtid_current_pos

\* The running connections of backend b to a monitored server.
Feeds(b) ==
    {i \in DOMAIN b.conns : /\ b.conns[i].master_host \in Servers
                            /\ b.conns[i].io = "YES" /\ b.conns[i].sql}

\* The thread sleeps for d; meanwhile the backend of s applies what its
\* master has, unless the oracle keeps it lagging. Its own binlog follows
\* only with log_slave_updates.
SleepFor(m, s, d, o) ==
    [m EXCEPT
       !.now = @ + d,
       !.srv[s].backend =
           IF o.quirk = "lagging" \/ Feeds(@) = {} THEN @
           ELSE [@ EXCEPT
                   !.gtid_current_pos =
                       m.srv[m.srv[s].backend.conns[
                           CHOOSE i \in Feeds(m.srv[s].backend) : TRUE
                         ].master_host].backend.gtid_binlog_pos,
                   !.gtid_binlog_pos =
                       IF m.srv[s].rpl_settings.log_slave_updates
                       THEN m.srv[m.srv[s].backend.conns[
                               CHOOSE i \in Feeds(m.srv[s].backend) : TRUE
                             ].master_host].backend.gtid_binlog_pos
                       ELSE @]]

\* The polling loop of catchup_to_master; lap_start is when the stopwatch
\* was last read.
RECURSIVE CatchupLoop(_, _, _, _, _, _)
RECURSIVE CatchupWait(_, _, _, _, _, _)
\* The target is not reached: sleep and poll again if time remains in m.
CatchupWait(s, target, sleep_time, lap_start, o, m) ==
    IF m.op.time_remaining > 0
    THEN CatchupLoop(SleepFor(m, s, Min(sleep_time, m.op.time_remaining), o),
                     s, target, sleep_time + CatchupSleepStep, lap_start, o)
    ELSE Ret(JsonError(m, "Slave catchup timed out"), FALSE)

\* A catchup that reports a timeout next to a failed poll.
CatchupPolledTimeoutToo(s, target, sleep_time, lap_start, o, r) ==
    IF ~r.ok
    THEN Ret(JsonError(JsonError(r.m,
                 "Failed to update gtid while waiting for catchup"),
                 "Slave catchup timed out"), FALSE)
    ELSE IF events_ahead(target, CatchupPosition(r.m.srv[s])) = 0 THEN r
         ELSE CatchupWait(s, target, sleep_time, r.m.now, o,
                          Lap(r, lap_start).m)

\* One iteration after its update_gtids gave r.
CatchupPolled(s, target, sleep_time, lap_start, o, r) ==
    IF ~r.ok
    THEN Ret(JsonError(r.m, "Failed to update gtid while waiting for catchup"),
             FALSE)
    ELSE IF events_ahead(target, CatchupPosition(r.m.srv[s])) = 0 THEN r
         ELSE CatchupWait(s, target, sleep_time, r.m.now, o,
                          Lap(r, lap_start).m)

CatchupLoop(m, s, target, sleep_time, lap_start, o) ==
    CatchupPolled(s, target, sleep_time, lap_start, o, update_gtids(m, s, o))

catchup_to_master(m, s, target, o) ==
    CatchupLoop(m, s, target, CatchupFirstSleep, m.now, o)

(***************************************************************************)
(* Initial states: a cluster the monitor has observed once.                *)
(***************************************************************************)
\* The budget an operation starts with (op.time_remaining).
OpBudget == 3

\* The backend of a server: its replication channels and settings.
Backend(conns, read_only, gtid, supers, events) ==
    [conns |-> conns, read_only |-> read_only,
     gtid_current_pos |-> gtid, gtid_binlog_pos |-> gtid,
     supers |-> supers, events |-> events,
     definers |-> [e \in DOMAIN events |->
                     [user |-> <<"u">>, host |-> <<"h">>]],
     sql_log_bin |-> TRUE,
     logs_flushed |-> FALSE,
     rpl_settings |-> [gtid_strict_mode |-> TRUE, log_bin |-> TRUE,
                       log_slave_updates |-> TRUE]]

\* The agent of a backend after its first monitor pass.
Agent(status, id, backend) ==
    [status |-> status, server_id |-> id, read_only |-> backend.read_only,
     gtid_domain_id |-> 0, print_update_errormsg |-> TRUE,
     master_id |-> IF backend.conns # <<>>
                   THEN backend.conns[1].master_server_id
                   ELSE SERVER_ID_UNKNOWN,
     gtid_current_pos |-> backend.gtid_current_pos,
     gtid_binlog_pos |-> backend.gtid_binlog_pos,
     slave_status |-> BuildRows(<<>>, backend.conns, TRUE, <<>>, 0),
     topology_changed |-> FALSE,
     capabilities |-> [basic_support |-> TRUE, gtid |-> TRUE,
                       max_statement_time |-> TRUE],
     srv_type |-> "NORMAL", assume_unique_hostnames |-> TRUE,
     query_events |-> TRUE,
     rpl_settings |-> backend.rpl_settings,
     enabled_events |-> {e \in DOMAIN backend.events : backend.events[e] = "ENABLED"},
     backend |-> backend]

ToExt(name) == BackendConn(name, ExtHost, ServerIdOfHost(ExtHost), "YES", TRUE)
ToExt2(name) == BackendConn(name, "ext2", ServerIdOfHost("ext2"), "YES", TRUE)
ToMaster(name) == BackendConn(name, "srv1", ServerIdOfHost("srv1"), "YES", TRUE)

MasterEvents == [e \in {"db.ev1", "db.ev2"} |->
                    IF e = "db.ev1" THEN "ENABLED" ELSE "DISABLED"]
SlaveEvents == [e \in {"db.ev1", "db.ev2"} |->
                    IF e = "db.ev1" THEN "SLAVESIDE_DISABLED" ELSE "DISABLED"]

\* srv1 is the master, with or without a channel to an external master;
\* srv2 and srv3 replicate from it, srv2 with or without a second channel to
\* the same external master, srv3 with a channel to another one.
Clusters(lags) ==
    {[s \in Servers |->
        CASE s = "srv1" ->
               Agent({"RUNNING", "MASTER"}, 1,
                     Backend(IF master_ext THEN <<ToExt("x")>> ELSE <<>>,
                             FALSE, Gtid(2), {7}, MasterEvents))
          [] s = "srv2" ->
               Agent({"RUNNING", "SLAVE"}, 2,
                     Backend(IF slave_ext THEN <<ToMaster("a"), ToExt("b")>>
                             ELSE <<ToMaster("a")>>,
                             TRUE, Gtid(lag), {}, SlaveEvents))
          [] OTHER ->
               Agent({"RUNNING", "SLAVE"}, 3,
                     Backend(<<ToMaster(""), ToExt2("c")>>, TRUE, Gtid(2), {},
                             SlaveEvents))] :
        master_ext \in BOOLEAN, slave_ext \in BOOLEAN, lag \in lags}

\* Every slave has applied all of the master's events.
InitialClusters == Clusters({2})

InitOp ==
    [time_remaining |-> OpBudget, errors |-> <<>>, log |-> <<>>,
     replication_user |-> "repl", replication_password |-> "secret",
     replication_ssl |-> FALSE]

Init ==
    /\ cmd = CmdIdle
    /\ srv \in InitialClusters
    /\ op = InitOp
    /\ sent = <<>>
    /\ now = 0
    /\ call = [name |-> "none"]
    /\ sw = [pc |-> "idle"]

(***************************************************************************)
(* The operations as actions: one whole call each.                         *)
(***************************************************************************)
Machine == [srv |-> srv, op |-> op, sent |-> sent, now |-> now]

\* The effect of a call that returned r.
Returned(r, record) ==
    /\ srv' = r.m.srv
    /\ op' = r.m.op
    /\ sent' = r.m.sent
    /\ now' = r.m.now
    /\ call' = [record EXCEPT !.ok = r.ok]

CallRecord(name, s, plan, type, o) ==
    [name |-> name, server |-> s, plan |-> plan, type |-> type,
     quirk |-> o.quirk, ok |-> FALSE, pre |-> srv,
     now0 |-> now, budget |-> op.time_remaining, dur |-> o.dur]

\* A ServerOperation for target s; conns and events come from the other side.
Plan(s, other, to_from_master, handle_events, sql_file) ==
    [target |-> s, to_from_master |-> to_from_master,
     handle_events |-> handle_events,
     events_to_enable |-> srv[other].enabled_events,
     conns_to_copy |-> srv[other].slave_status,
     sql_file |-> sql_file]

OpDemote ==
    /\ call.name = "none"
    /\ \E s \in {"srv1", "srv2"}, tfm \in BOOLEAN, he \in BOOLEAN,
          file \in {"", "demote.sql"}, o \in Oracles(Len(sent)) :
          LET demotion == Plan(s, "srv2", tfm, he, file)
          IN Returned(demote(Machine, s, demotion, o),
                      CallRecord("demote", s, demotion, "SWITCHOVER", o))
    /\ UNCHANGED <<cmd, sw>>

OpPromote ==
    /\ call.name = "none"
    /\ \E s \in {"srv2", "srv3"}, type \in {"SWITCHOVER", "FAILOVER"},
          tfm \in BOOLEAN, he \in BOOLEAN,
          file \in {"", "promote.sql"}, o \in Oracles(Len(sent)) :
          LET promotion == Plan(s, "srv1", tfm, he, file)
          IN Returned(promote(Machine, s, promotion, type, "srv1", o),
                      CallRecord("promote", s, promotion, type, o))
    /\ UNCHANGED <<cmd, sw>>

OpRemoveSlaveConns ==
    /\ call.name = "none"
    /\ \E s \in {"srv1", "srv2"}, o \in Oracles(Len(sent)) :
       \E picked \in SUBSET DOMAIN srv[s].slave_status :
          LET conns == SelectSeq(srv[s].slave_status,
                          LAMBDA x : \E i \in picked : srv[s].slave_status[i] = x)
          IN Returned(remove_slave_conns(Machine, s, conns, o),
                      [CallRecord("remove_slave_conns", s, <<>>, "", o)
                          EXCEPT !.plan = conns])
    /\ UNCHANGED <<cmd, sw>>

OpRedirect ==
    /\ call.name = "none"
    /\ \E s \in {"srv2", "srv3"}, o \in Oracles(Len(sent)) :
       \E i \in DOMAIN srv[s].slave_status :
          Returned(redirect_existing_slave_conn(Machine, s, srv[s].slave_status[i],
                       IF s = "srv2" THEN "srv3" ELSE "srv2", o),
                   [CallRecord("redirect", s, <<>>, "", o)
                       EXCEPT !.plan = srv[s].slave_status[i]])
    /\ UNCHANGED <<cmd, sw>>

\* The monitor's update_slave_status for one server, after an operation.
\* update_slave_status after do_show_slave_status gave r: the master id of
\* the server is that of its first slave connection.
MasterIdStored(s, r) ==
    IF ~r.ok THEN r
    ELSE Ret([r.m EXCEPT !.srv[s].master_id =
                 IF r.m.srv[s].slave_status # <<>>
                 THEN r.m.srv[s].slave_status[1].master_server_id
                 ELSE SERVER_ID_UNKNOWN],
             TRUE)

update_slave_status(m, s, o) == MasterIdStored(s, do_show_slave_status(m, s, o))

\* update_replication_settings once the query has answered with q.
ReplicationSettingsResult(s, o, q) ==
    IF ~q.ok \/ o.quirk = "norow" THEN Ret(q.m, FALSE)
    ELSE Ret([q.m EXCEPT !.srv[s].rpl_settings = q.m.srv[s].backend.rpl_settings],
             TRUE)

update_replication_settings(m, s, o) ==
    ReplicationSettingsResult(s, o,
        execute_query(m, s, [kind |-> "SELECT_SETTINGS"], o))

\* The effect of a monitor pass over one server that returned r.
Ticked(r) ==
    /\ srv' = r.m.srv
    /\ sent' = r.m.sent
    /\ call' = [call EXCEPT !.name = "tick"]

OpTick ==
    /\ call.name \notin {"none", "tick"}
    /\ \E s \in Servers, f \in {{}, {1}} :
          Ticked(update_slave_status(Machine, s,
                     [fail |-> f, quirk |-> "none", dur |-> 0,
                      base |-> Len(sent)]))
    /\ UNCHANGED <<cmd, op, now, sw>>

Next == OpDemote \/ OpPromote \/ OpRemoveSlaveConns \/ OpRedirect \/ OpTick

Spec == Init /\ [][Next]_vars

(***************************************************************************)
(* The switchover script: demote, redirect, catchup, promote. Each step is *)
(* one whole call of the operation above; the script itself is taken from  *)
(* the design document.                                                    *)
(***************************************************************************)
\* Upper bound of the number of commands one switchover sends.
MaxSwCmds == 32

\* One switchover meets at most one failing command.
SwOracles ==
    {[fail |-> f, quirk |-> q, dur |-> d, base |-> 0] :
        f \in {{}} \cup {{i} : i \in 1..MaxSwCmds},
        q \in Quirks \cup {"lagging"}, d \in {0, 1}}

\* The demotion and the promotion target.
SwD == "srv1"
SwP == "srv2"

InitSw ==
    /\ cmd = CmdIdle
    /\ srv \in Clusters({1, 2})
    /\ op = InitOp
    /\ sent = <<>>
    /\ now = 0
    /\ call = [name |-> "none"]
    /\ sw = [pc |-> "start"]

\* A step of the script ran: its name, its result, its part of the log.
SwStepDone(r, step, next) ==
    /\ srv' = r.m.srv
    /\ op' = r.m.op
    /\ sent' = r.m.sent
    /\ now' = r.m.now
    /\ sw' = [sw EXCEPT
                !.pc = IF r.ok THEN next ELSE "aborted",
                !.log = Append(@, [step |-> step, ok |-> r.ok,
                                   from |-> Len(sent), to |-> Len(r.m.sent)])]
    /\ UNCHANGED <<cmd, call>>

\* The two plans are made from what the monitor knows of D.
SwStart ==
    /\ sw.pc = "start"
    /\ \E he \in BOOLEAN, file \in {"", "switch.sql"}, o \in SwOracles :
          sw' = [pc |-> "demote", o |-> o, pre |-> srv, log |-> <<>>,
                 plan_D |-> Plan(SwD, SwD, TRUE, he, file),
                 plan_P |-> Plan(SwP, SwD, TRUE, he, file)]
    /\ UNCHANGED <<cmd, srv, op, sent, now, call>>

SwDemote ==
    /\ sw.pc = "demote"
    /\ SwStepDone(demote(Machine, SwD, sw.plan_D, sw.o), "demote", "redirect")

\* The connections of the slaves other than P that replicate from D, as
\* pairs <<slave, row>>.
\* The server of a set that comes first.
First(todo) ==
    CHOOSE x \in todo : \A y \in todo : ServerIdOfHost(x) <= ServerIdOfHost(y)

RowsTo(a, d) ==
    SelectSeq(a.slave_status,
              LAMBDA x : x.master_host = Address(d) /\ x.master_port = Port(d))

PairsOf(s, rows) == [i \in DOMAIN rows |-> <<s, rows[i]>>]

RECURSIVE SlavesOf(_, _, _)
SlavesOf(m, d, todo) ==
    IF todo = {} THEN <<>>
    ELSE PairsOf(First(todo), RowsTo(m.srv[First(todo)], d))
         \o SlavesOf(m, d, todo \ {First(todo)})

RECURSIVE RedirectLoop(_, _, _, _)
RECURSIVE RedirectNext(_, _, _, _)
RedirectNext(pairs, new_master, o, r) ==
    IF ~r.ok THEN r ELSE RedirectLoop(r.m, pairs, new_master, o)

RedirectLoop(m, pairs, new_master, o) ==
    IF pairs = <<>> THEN Ret(m, TRUE)
    ELSE RedirectNext(Tail(pairs), new_master, o,
            redirect_existing_slave_conn(m, Head(pairs)[1], Head(pairs)[2],
                                         new_master, o))

SwRedirect ==
    /\ sw.pc = "redirect"
    /\ SwStepDone(RedirectLoop(Machine,
                               SlavesOf(Machine, SwD, Servers \ {SwD, SwP}),
                               SwP, sw.o),
                  "redirect", "catchup")

SwCatchup ==
    /\ sw.pc = "catchup"
    /\ SwStepDone(catchup_to_master(Machine, SwP, srv[SwD].gtid_binlog_pos, sw.o),
                  "catchup", "promote")

SwPromote ==
    /\ sw.pc = "promote"
    /\ SwStepDone(promote(Machine, SwP, sw.plan_P, "SWITCHOVER", SwD, sw.o),
                  "promote", "done")

\* The monitor pass after the switchover: every agent reads its slave
\* status again.
RECURSIVE TickLoop(_, _)
TickLoop(m, todo) ==
    IF todo = {} THEN m
    ELSE TickLoop(update_slave_status(m, First(todo),
                      [fail |-> {}, quirk |-> "none", dur |-> 0,
                       base |-> Len(m.sent)]).m,
                  todo \ {First(todo)})

SwTicked(m) ==
    /\ srv' = m.srv
    /\ sent' = m.sent
    /\ sw' = [sw EXCEPT !.pc = "ticked"]

SwTick ==
    /\ sw.pc = "done"
    /\ SwTicked(TickLoop(Machine, Servers))
    /\ UNCHANGED <<cmd, op, now, call>>

NextSw == SwStart \/ SwDemote \/ SwRedirect \/ SwCatchup \/ SwPromote \/ SwTick

SpecSw == InitSw /\ [][NextSw]_vars

(***************************************************************************)
(* The operations under any budget, and catchup_to_master on its own.      *)
(***************************************************************************)
\* The budgets an operation can be called with: spent, overdrawn, or whole.
Budgets == {-1, 0, OpBudget}

\* The answers of the backend to a catchup: it may stay behind its master.
CatchupOracles ==
    {[fail |-> f, quirk |-> q, dur |-> d, base |-> 0] :
        f \in {{}} \cup {{i} : i \in 1..MaxCmds},
        q \in {"none", "lagging"}, d \in {0, 1}}

\* A slave that does not log the events it applies: its binlog position
\* stays where it was while its current position follows the master.
WithoutLogSlaveUpdates(a, seq) ==
    [a EXCEPT !.rpl_settings.log_slave_updates = FALSE,
              !.gtid_binlog_pos = Gtid(seq),
              !.backend.gtid_binlog_pos = Gtid(seq)]

InitOps ==
    /\ cmd = CmdIdle
    /\ srv \in Clusters({1, 2})
    /\ \E b \in Budgets : op = [InitOp EXCEPT !.time_remaining = b]
    /\ sent = <<>>
    /\ now = 0
    /\ call = [name |-> "none"]
    /\ sw = [pc |-> "idle"]

InitCatchup ==
    /\ cmd = CmdIdle
    /\ \E c \in Clusters({1, 2}), lsu \in BOOLEAN, seq \in {0, 2} :
          srv = IF lsu THEN c
                ELSE [c EXCEPT !["srv2"] = WithoutLogSlaveUpdates(@, seq)]
    /\ \E b \in Budgets : op = [InitOp EXCEPT !.time_remaining = b]
    /\ sent = <<>>
    /\ now = 0
    /\ call = [name |-> "none"]
    /\ sw = [pc |-> "idle"]

\* The targets of a catchup: where the master is, or beyond it.
CatchupTargets == {srv["srv1"].gtid_binlog_pos, Gtid(3)}

OpCatchup ==
    /\ call.name = "none"
    /\ \E s \in {"srv2", "srv3"}, target \in CatchupTargets,
          o \in CatchupOracles :
          Returned(catchup_to_master(Machine, s, target, o),
                   [CallRecord("catchup", s, <<>>, "", o)
                       EXCEPT !.plan = target])
    /\ UNCHANGED <<cmd, sw>>

OpKick ==
    /\ call.name = "none"
    /\ \E s \in {"srv1", "srv2"}, o \in Oracles(Len(sent)) :
          Returned(kick_out_super_users(Machine, s, o),
                   CallRecord("kick", s, <<>>, "", o))
    /\ UNCHANGED <<cmd, sw>>

\* A slave connection to create: a name and a master.
NewConn(name, host) ==
    [NewSlaveStatus(0) EXCEPT !.name = name, !.master_host = host,
                              !.master_port = 3306]

OpCreateStartSlave ==
    /\ call.name = "none"
    /\ \E s \in {"srv1", "srv2"}, o \in Oracles(Len(sent)) :
       \E conn \in {NewConn("n", "ext2"), NewConn("m", "srv3")} :
          Returned(create_start_slave(Machine, s, conn, o),
                   [CallRecord("create", s, <<>>, "", o) EXCEPT !.plan = conn])
    /\ UNCHANGED <<cmd, sw>>

NextOps ==
    \/ OpDemote \/ OpPromote \/ OpRemoveSlaveConns \/ OpRedirect
    \/ OpCatchup \/ OpKick \/ OpCreateStartSlave \/ OpTick

SpecOps == InitOps /\ [][NextOps]_vars

NextCatchup == OpCatchup \/ OpTick

SpecCatchup == InitCatchup /\ [][NextCatchup]_vars

(***************************************************************************)
(* The monitor tick of one server: monitor_server.                         *)
(***************************************************************************)
\* The server id the backend of s reports.
ReportedServerId(s) == ServerIdOfHost(Address(s))

\* The ids as parsed from the row: one that cannot be parsed is unknown.
ParsedServerId(s, o) ==
    IF o.quirk = "bad_id" THEN SERVER_ID_UNKNOWN ELSE ReportedServerId(s)

ParsedDomainId(a, o) ==
    IF ~a.capabilities.gtid \/ o.quirk = "bad_domain"
    THEN GTID_DOMAIN_UNKNOWN ELSE 0

\* What read_server_variables stores from a result row.
VariablesRead(a, id, domain) ==
    [a EXCEPT !.server_id = id,
              !.gtid_domain_id = domain,
              !.read_only = a.backend.read_only,
              !.topology_changed =
                  (a.topology_changed \/ id # a.server_id
                   \/ a.backend.read_only # a.read_only)]

\* read_server_variables once the query has answered with q; rval is false
\* for an id that could not be parsed, after the row has been stored.
ReadVariablesResult(s, o, q) ==
    IF ~q.ok \/ o.quirk = "norow" THEN Ret(q.m, FALSE)
    ELSE Ret([q.m EXCEPT !.srv[s] =
                 VariablesRead(q.m.srv[s], ParsedServerId(s, o),
                               ParsedDomainId(q.m.srv[s], o))],
             /\ o.quirk # "bad_id"
             /\ ~(q.m.srv[s].capabilities.gtid /\ o.quirk = "bad_domain"))

read_server_variables(m, s, o) ==
    ReadVariablesResult(s, o, execute_query(m, s, [kind |-> "SELECT_VARIABLES"], o))

EnabledEventsResult(s, q) ==
    IF ~q.ok THEN Ret(q.m, FALSE)
    ELSE Ret([q.m EXCEPT !.srv[s].enabled_events =
                 {e \in DOMAIN q.m.srv[s].backend.events :
                     q.m.srv[s].backend.events[e] = "ENABLED"}],
             TRUE)

update_enabled_events(m, s, o) ==
    EnabledEventsResult(s, execute_query(m, s, [kind |-> "SELECT_ENABLED_EVENTS"], o))

\* m_query_events: the monitor is set to handle events.
QueryEvents(a) == a.query_events

MonitorAfterGtids(s, o, r) ==
    IF r.ok /\ QueryEvents(r.m.srv[s]) THEN update_enabled_events(r.m, s, o) ELSE r

MonitorAfterStatus(s, o, r) ==
    IF r.ok /\ r.m.srv[s].capabilities.gtid
    THEN MonitorAfterGtids(s, o, update_gtids(r.m, s, o))
    ELSE MonitorAfterGtids(s, o, r)

\* A tick that reads the slave status whatever became of the variables.
MonitorOnAfterVariables(s, o, r) ==
    MonitorAfterStatus(s, o, update_slave_status(r.m, s, o))

MonitorAfterVariables(s, o, r) ==
    IF r.ok THEN MonitorAfterStatus(s, o, update_slave_status(r.m, s, o))
    ELSE r

\* The queries of monitor_server; the result is query_ok.
MonitorQueries(m, s, o) ==
    IF m.srv[s].srv_type = "BINLOG_ROUTER" THEN update_slave_status(m, s, o)
    ELSE IF m.srv[s].capabilities.basic_support
         THEN MonitorAfterVariables(s, o, read_server_variables(m, s, o))
         ELSE Ret(m, TRUE)

\* errmsg is not empty: the query sent last failed (a result that is turned
\* down for its columns or its values leaves errmsg empty).
ErrmsgSet(r) == r.m.sent # <<>> /\ ~Last(r.m.sent).ok

\* A monitor that warns at every failed tick.
WarnAtEveryFailure(s, r) ==
    IF r.ok THEN Ret([r.m EXCEPT !.srv[s].print_update_errormsg = TRUE], TRUE)
    ELSE IF ErrmsgSet(r)
    THEN Ret(Logged([r.m EXCEPT !.srv[s].print_update_errormsg = FALSE],
                    "warning", [kind |-> "monitor update"]), FALSE)
    ELSE r

\* The end of monitor_server: success arms the latch; a failure with a
\* message warns if the latch is armed, and disarms it.
MonitorWarned(s, r) ==
    IF r.ok THEN Ret([r.m EXCEPT !.srv[s].print_update_errormsg = TRUE], TRUE)
    ELSE IF ErrmsgSet(r) /\ r.m.srv[s].print_update_errormsg
    THEN Ret(Logged([r.m EXCEPT !.srv[s].print_update_errormsg = FALSE],
                    "warning", [kind |-> "monitor update"]), FALSE)
    ELSE r

\* monitor_server; the result is query_ok.
monitor_server(m, s, o) == MonitorWarned(s, MonitorQueries(m, s, o))

\* The last tick the clock of the ticks reaches.
MaxTickTime == 2

\* The server whose ticks are followed.
TickServer == "srv2"

\* The rows SHOW ALL SLAVES STATUS can hold: connections to the master and
\* to an external master in each io state, and one row each with more
\* heartbeats, another master id, a stopped sql thread, another port and
\* another io position.
TickRows ==
    {BackendConn("c", h, ServerIdOfHost(h), io, TRUE) :
        h \in {"srv1", ExtHost}, io \in {"YES", "CONNECTING", "NO"}}
    \cup {[BackendConn("c", "srv1", 1, "YES", TRUE)
              EXCEPT !.received_heartbeats = 1],
          BackendConn("c", "srv1", 9, "CONNECTING", TRUE),
          BackendConn("c", "srv1", 1, "YES", FALSE),
          [BackendConn("c", "srv1", 1, "YES", TRUE) EXCEPT !.master_port = 3307],
          [BackendConn("c", "srv1", 1, "YES", TRUE) EXCEPT !.gtid_io_pos = Gtid(2)]}

\* The sequences of at most two rows of S; no two connections of a server
\* go to the same host and port.
SeqsUpTo2(S) ==
    {<<>>} \cup {<<a>> : a \in S}
    \cup {p \in {<<a, b>> : a \in S, b \in S} : ~compare_rows(p[1], p[2])}

\* The rows an earlier tick can have left: connections to the master and to
\* an external master as read at time 0; a row that was CONNECTING may or
\* may not have been seen connected before.
PreviousConns ==
    {BackendConn("c", "srv1", 1, io, TRUE) : io \in {"YES", "CONNECTING", "NO"}}
    \cup {BackendConn("c", ExtHost, ServerIdOfHost(ExtHost), io, TRUE) :
              io \in {"YES", "CONNECTING"}}

PreviousRows ==
    {BuildRow(<<>>, c, TRUE, <<>>, 0) : c \in PreviousConns}
    \cup {[BuildRow(<<>>, c, TRUE, <<>>, 0) EXCEPT !.seen_connected = TRUE] :
             c \in {x \in PreviousConns : x.io = "CONNECTING"}}

\* The cluster around the server that is followed.
TickCluster ==
    CHOOSE c \in InitialClusters :
        Len(c["srv1"].backend.conns) = 0 /\ Len(c["srv2"].backend.conns) = 1

InitTick ==
    /\ cmd = CmdIdle
    /\ \E old \in SeqsUpTo2(PreviousRows), conns \in SeqsUpTo2(TickRows),
          tc \in BOOLEAN, ro \in BOOLEAN :
          srv = [TickCluster EXCEPT ![TickServer] =
                    [@ EXCEPT !.slave_status = old,
                              !.backend.conns = conns,
                              !.topology_changed = tc,
                              !.read_only = ro]]
    /\ op = InitOp
    /\ sent = <<>>
    /\ now = 0
    /\ call = [name |-> "none"]
    /\ sw = [pc |-> "idle"]

\* Which of the queries of a tick fail: none, or one of the four.
TickFailures == {{}} \cup {{i} : i \in 1..4}

\* The tick got as far as publishing a new slave status array.
StatusPublished(f) == f \cap {1, 2} = {}

\* The effect of a tick that returned r.
MonitorTicked(r, f) ==
    /\ srv' = r.m.srv
    /\ now' = r.m.now
    /\ call' = [name |-> "status", server |-> TickServer, ok |-> r.ok,
                pre |-> srv, fail |-> f,
                prev |-> (call.name = "status" /\ StatusPublished(call.fail))]

\* One tick of the monitor, a time unit after the one before it.
MonitorTick ==
    /\ now < MaxTickTime
    /\ \E f \in TickFailures :
          MonitorTicked(
              monitor_server([Machine EXCEPT !.now = now + 1], TickServer,
                             [fail |-> f, quirk |-> "none", dur |-> 0,
                              base |-> Len(sent)]), f)
    /\ UNCHANGED <<cmd, op, sent, sw>>

\* update_slave_status called on its own, a time unit after the last call.
StatusUpdated(r, f) ==
    /\ srv' = r.m.srv
    /\ now' = r.m.now
    /\ call' = [name |-> "update_slave_status", server |-> TickServer,
                ok |-> r.ok, pre |-> srv, fail |-> f, prev |-> FALSE]

StatusUpdate ==
    /\ now < MaxTickTime
    /\ \E f \in {{}, {1}} :
          StatusUpdated(
              update_slave_status([Machine EXCEPT !.now = now + 1], TickServer,
                                  [fail |-> f, quirk |-> "none", dur |-> 0,
                                   base |-> Len(sent)]), f)
    /\ UNCHANGED <<cmd, op, sent, sw>>

\* Between two ticks the io thread of the first connection of the backend
\* changes its state.
IoThreadMoves ==
    /\ call.name = "status"
    /\ srv[TickServer].backend.conns # <<>>
    /\ \E io \in {"YES", "CONNECTING", "NO"}
                 \ {srv[TickServer].backend.conns[1].io} :
          srv' = [srv EXCEPT ![TickServer].backend.conns[1].io = io]
    /\ call' = [name |-> "backend"]
    /\ UNCHANGED <<cmd, op, sent, now, sw>>

NextTick == MonitorTick \/ StatusUpdate \/ IoThreadMoves

SpecTick == InitTick /\ [][NextTick]_vars

(***************************************************************************)
(* A tick of the monitor thread against a reader on another thread.  The   *)
(* tick is cut where it takes and gives back m_arraylock; diagnostics and  *)
(* to_json read the array and the positions while they hold it.            *)
(***************************************************************************)
InitRead ==
    /\ cmd = CmdIdle
    /\ \E conns \in SeqsUpTo2(PreviousConns) :
          srv = [TickCluster EXCEPT ![TickServer] =
                    [@ EXCEPT !.slave_status =
                                  BuildRows(<<>>, conns, TRUE, <<>>, 0),
                              !.backend.conns = conns,
                              !.backend.gtid_current_pos = Gtid(1),
                              !.backend.gtid_binlog_pos = Gtid(1),
                              !.gtid_current_pos = Gtid(1),
                              !.gtid_binlog_pos = Gtid(1)]]
    /\ op = InitOp
    /\ sent = <<>>
    /\ now = 0
    /\ call = [name |-> "tick", pc |-> "idle", status_by |-> 0,
               gtids_by |-> 0, seen |-> <<>>]
    /\ sw = [pc |-> "idle"]

\* The query of a step of the tick answers or fails.
StepOracles ==
    {[fail |-> f, quirk |-> "none", dur |-> 0, base |-> Len(sent)] :
        f \in {{}, {1}}}

\* The tick starts: read_server_variables.
VariablesStepped(r) ==
    /\ srv' = r.m.srv
    /\ now' = r.m.now
    /\ call' = [call EXCEPT !.pc = IF r.ok THEN "status" ELSE "idle"]

TickVariables ==
    /\ call.pc = "idle"
    /\ now < MaxTickTime
    /\ srv[TickServer].capabilities.basic_support
    /\ \E o \in StepOracles :
          VariablesStepped(read_server_variables(
              [Machine EXCEPT !.now = now + 1], TickServer, o))
    /\ UNCHANGED <<cmd, op, sent, sw>>

\* update_slave_status: the new array is assigned under the lock, which is
\* given back when do_show_slave_status returns.
StatusStepped(r) ==
    /\ srv' = r.m.srv
    /\ call' = [call EXCEPT
                  !.pc = IF ~r.ok THEN "idle"
                         ELSE IF r.m.srv[TickServer].capabilities.gtid
                              THEN "gtids" ELSE "events",
                  !.status_by = IF r.ok THEN now ELSE @]

TickStatus ==
    /\ call.pc = "status"
    /\ \E o \in StepOracles :
          StatusStepped(update_slave_status(Machine, TickServer, o))
    /\ UNCHANGED <<cmd, op, sent, now, sw>>

\* update_gtids: the lock is taken again for the two positions.
GtidsStepped(r) ==
    /\ srv' = r.m.srv
    /\ call' = [call EXCEPT !.pc = IF r.ok THEN "events" ELSE "idle",
                            !.gtids_by = IF r.ok THEN now ELSE @]

TickGtids ==
    /\ call.pc = "gtids"
    /\ \E o \in StepOracles :
          GtidsStepped(update_gtids(Machine, TickServer, o))
    /\ UNCHANGED <<cmd, op, sent, now, sw>>

\* update_enabled_events ends the tick.
TickEvents ==
    /\ call.pc = "events"
    /\ \E o \in StepOracles :
          srv' = (IF QueryEvents(srv[TickServer])
                  THEN update_enabled_events(Machine, TickServer, o).m.srv
                  ELSE srv)
    /\ call' = [call EXCEPT !.pc = "idle"]
    /\ UNCHANGED <<cmd, op, sent, now, sw>>

\* What diagnostics and to_json report from under the lock, with the ticks
\* that published it.
Snapshot(a) ==
    [slave_status |-> a.slave_status,
     gtid_current_pos |-> a.gtid_current_pos,
     gtid_binlog_pos |-> a.gtid_binlog_pos,
     status_by |-> call.status_by,
     gtids_by |-> call.gtids_by,
     pc |-> call.pc]

\* diagnostics or to_json on another thread, at any point of the tick.
ReaderReads ==
    /\ call' = [call EXCEPT !.seen = <<Snapshot(srv[TickServer])>>]
    /\ UNCHANGED <<cmd, srv, op, sent, now, sw>>

\* Between two ticks the backend replicates an event: its positions and the
\* io position of its first connection move on.
BackendReplicates ==
    /\ call.pc = "idle"
    /\ srv[TickServer].backend.gtid_current_pos = Gtid(now + 1)
    /\ srv' = [srv EXCEPT ![TickServer].backend =
                  [@ EXCEPT
                     !.gtid_current_pos = Gtid(now + 2),
                     !.gtid_binlog_pos = Gtid(now + 2),
                     !.conns = IF @ = <<>> THEN @
                               ELSE [@ EXCEPT ![1].gtid_io_pos = Gtid(now + 2)]]]
    /\ UNCHANGED <<cmd, op, sent, now, call, sw>>

NextRead ==
    \/ TickVariables
    \/ TickStatus
    \/ TickGtids
    \/ TickEvents
    \/ ReaderReads
    \/ BackendReplicates

SpecRead == InitRead /\ [][NextRead]_vars

(***************************************************************************)
(* can_be_promoted, can_be_demoted_switchover, can_be_demoted_failover     *)
(***************************************************************************)
\* The status word of agent a as the predicates of the server read it.
is_master(a) == "MASTER" \in a.status
is_running(a) == "RUNNING" \in a.status
is_usable(a) == "RUNNING" \in a.status /\ "MAINT" \notin a.status
is_low_on_disk_space(a) == "DISK_SPACE_EXHAUSTED" \in a.status
binlog_on(a) == a.rpl_settings.log_bin

\* What a gate gives back: its answer and, when that is no, the reason.
Gate(m, ok, reason) == [m |-> m, ok |-> ok, reason |-> reason]

\* The end of can_be_promoted, its settings query having given r.
PromotableSettings(s, r) ==
    IF ~r.ok THEN Gate(r.m, FALSE, "it could not be queried")
    ELSE IF ~binlog_on(r.m.srv[s])
    THEN Gate(r.m, FALSE, "its binary log is disabled.")
    ELSE Gate(r.m, TRUE, "")

\* A gate that asks for a running io thread in a failover as well.
PromotableIoAlways(m, s, optype, sstatus, o) ==
    IF is_master(m.srv[s]) THEN Gate(m, FALSE, "it is already the master.")
    ELSE IF ~is_usable(m.srv[s])
    THEN Gate(m, FALSE, "it is down or in maintenance.")
    ELSE IF optype = "SWITCHOVER" /\ is_low_on_disk_space(m.srv[s])
    THEN Gate(m, FALSE, "it is low on disk space.")
    ELSE IF sstatus = <<>> THEN Gate(m, FALSE, "it is not replicating from")
    ELSE IF sstatus[1].gtid_io_pos = NoGtid
    THEN Gate(m, FALSE, "its slave connection is not using gtid.")
    ELSE IF sstatus[1].slave_io_running # "YES"
    THEN Gate(m, FALSE, "its slave connection is broken.")
    ELSE PromotableSettings(s, update_replication_settings(m, s, o))

\* can_be_promoted, given the slave connection to the demotion target.
PromotableWith(m, s, optype, sstatus, o) ==
    IF is_master(m.srv[s]) THEN Gate(m, FALSE, "it is already the master.")
    ELSE IF ~is_usable(m.srv[s])
    THEN Gate(m, FALSE, "it is down or in maintenance.")
    ELSE IF optype = "SWITCHOVER" /\ is_low_on_disk_space(m.srv[s])
    THEN Gate(m, FALSE, "it is low on disk space.")
    ELSE IF sstatus = <<>> THEN Gate(m, FALSE, "it is not replicating from")
    ELSE IF sstatus[1].gtid_io_pos = NoGtid
    THEN Gate(m, FALSE, "its slave connection is not using gtid.")
    ELSE IF optype = "SWITCHOVER" /\ sstatus[1].slave_io_running # "YES"
    THEN Gate(m, FALSE, "its slave connection is broken.")
    ELSE PromotableSettings(s, update_replication_settings(m, s, o))

can_be_promoted(m, s, optype, demotion_target, o) ==
    PromotableWith(m, s, optype, slave_connection_status(m, s, demotion_target), o)

\* A gate that does not ask for log_slave_updates.
DemotableWhateverUpdates(s, r) ==
    IF ~r.ok THEN Gate(r.m, FALSE, "it could not be queried")
    ELSE IF ~binlog_on(r.m.srv[s])
    THEN Gate(r.m, FALSE, "its binary log is disabled.")
    ELSE IF r.m.srv[s].gtid_binlog_pos = NoGtid
    THEN Gate(r.m, FALSE, "it does not have a 'gtid_binlog_pos'.")
    ELSE Gate(r.m, TRUE, "")

\* The end of can_be_demoted_switchover, its settings query having given r.
DemotableSettings(s, r) ==
    IF ~r.ok THEN Gate(r.m, FALSE, "it could not be queried")
    ELSE IF ~binlog_on(r.m.srv[s])
    THEN Gate(r.m, FALSE, "its binary log is disabled.")
    ELSE IF ~is_master(r.m.srv[s]) /\ ~r.m.srv[s].rpl_settings.log_slave_updates
    THEN Gate(r.m, FALSE,
              "it is not the master and log_slave_updates is disabled.")
    ELSE IF r.m.srv[s].gtid_binlog_pos = NoGtid
    THEN Gate(r.m, FALSE, "it does not have a 'gtid_binlog_pos'.")
    ELSE Gate(r.m, TRUE, "")

can_be_demoted_switchover(m, s, o) ==
    IF ~is_usable(m.srv[s])
    THEN Gate(m, FALSE, "it is not running or it is in maintenance.")
    ELSE DemotableSettings(s, update_replication_settings(m, s, o))

\* A gate that takes a running server that is not the master.
DemotableThoughRunning(m, s) ==
    IF is_master(m.srv[s]) THEN Gate(m, FALSE, "it is a running master.")
    ELSE IF m.srv[s].gtid_binlog_pos = NoGtid
    THEN Gate(m, FALSE, "it does not have a 'gtid_binlog_pos'.")
    ELSE Gate(m, TRUE, "")

can_be_demoted_failover(m, s) ==
    IF is_master(m.srv[s]) THEN Gate(m, FALSE, "it is a running master.")
    ELSE IF is_running(m.srv[s]) THEN Gate(m, FALSE, "it is running.")
    ELSE IF m.srv[s].gtid_binlog_pos = NoGtid
    THEN Gate(m, FALSE, "it does not have a 'gtid_binlog_pos'.")
    ELSE Gate(m, TRUE, "")

\* The answers a read can get: the query fails, or it succeeds with a
\* result set that has one of the given faults.
ReadOracles(quirks) ==
    {[fail |-> {1}, quirk |-> "none", dur |-> 0, base |-> Len(sent)]}
    \cup {[fail |-> {}, quirk |-> q, dur |-> 0, base |-> Len(sent)] :
             q \in quirks}

\* How many gates are asked in a row.
MaxGateCalls == 1

\* The status words a server can have: the master bit is given to a server
\* that runs and is not in maintenance.
GateStatuses ==
    {S \in SUBSET {"RUNNING", "MASTER", "MAINT", "DISK_SPACE_EXHAUSTED"} :
        "MASTER" \in S => ("RUNNING" \in S /\ "MAINT" \notin S)}

\* The rows the server can hold for its connection to srv1.
GateRows ==
    {[BuildRow(<<>>,
               [BackendConn("a", "srv1", 1, io, sql) EXCEPT !.gtid_io_pos = pos],
               TRUE, <<>>, 0) EXCEPT !.seen_connected = seen] :
        io \in {"YES", "CONNECTING", "NO"}, sql \in BOOLEAN,
        pos \in {NoGtid, Gtid(1)}, seen \in BOOLEAN}

GateSlaveStatuses ==
    {<<>>}
    \cup {<<row>> : row \in {x \in GateRows :
                               x.slave_io_running = "YES" => x.seen_connected}}
    \cup {<<BuildRow(<<>>, ToExt("b"), TRUE, <<>>, 0), row>> :
             row \in {x \in GateRows :
                        x.slave_io_running = "YES" => x.seen_connected}}

InitGate ==
    /\ cmd = CmdIdle
    /\ \E status \in GateStatuses, rows \in GateSlaveStatuses,
          unique \in BOOLEAN, log_bin \in BOOLEAN, updates \in BOOLEAN,
          pos \in {NoGtid, Gtid(2)} :
          srv = [TickCluster EXCEPT ![TickServer] =
                    [@ EXCEPT !.status = status,
                              !.slave_status = rows,
                              !.assume_unique_hostnames = unique,
                              !.gtid_binlog_pos = pos,
                              !.backend.rpl_settings.log_bin = log_bin,
                              !.backend.rpl_settings.log_slave_updates = updates]]
    /\ op = InitOp
    /\ sent = <<>>
    /\ now = 0
    /\ call = [name |-> "none"]
    /\ sw = [pc |-> "idle"]

\* The effect of the gate `name` that gave g.
GateAsked(name, optype, o, g) ==
    /\ srv' = g.m.srv
    /\ now' = now + 1
    /\ call' = [name |-> name, optype |-> optype, server |-> TickServer,
                ok |-> g.ok, reason |-> g.reason, pre |-> srv,
                fail |-> o.fail, quirk |-> o.quirk,
                queries |-> Len(g.m.sent) - Len(sent)]
    /\ UNCHANGED <<cmd, op, sent, sw>>

AskPromoted ==
    /\ now < MaxGateCalls
    /\ \E optype \in {"SWITCHOVER", "FAILOVER"},
          o \in ReadOracles({"none", "norow"}) :
          GateAsked("can_be_promoted", optype, o,
                    can_be_promoted(Machine, TickServer, optype, "srv1", o))

AskDemotedSwitchover ==
    /\ now < MaxGateCalls
    /\ \E o \in ReadOracles({"none", "norow"}) :
          GateAsked("can_be_demoted_switchover", "SWITCHOVER", o,
                    can_be_demoted_switchover(Machine, TickServer, o))

AskDemotedFailover ==
    /\ now < MaxGateCalls
    /\ \E o \in ReadOracles({"none"}) :
          GateAsked("can_be_demoted_failover", "FAILOVER", o,
                    can_be_demoted_failover(Machine, TickServer))

NextGate == AskPromoted \/ AskDemotedSwitchover \/ AskDemotedFailover

SpecGate == InitGate /\ [][NextGate]_vars

(***************************************************************************)
(* copy_slave_conns and merge_slave_conns on the promotion target SwP with *)
(* connections saved from the demotion target SwD.                         *)
(***************************************************************************)
\* How many calls are followed.
MaxConnCalls == 1

\* A connection as an agent holds it, seen connected and running.
SavedConn(name, host, id, sql) ==
    [NewConn(name, host) EXCEPT !.master_server_id = id,
                                !.slave_io_running = "YES",
                                !.slave_sql_running = sql,
                                !.seen_connected = TRUE]

\* The connections the demotion target can have had: to an external
\* master, to a third server, to the promotion target (with the server id
\* the promotion target has now, or with the one it had when the connection
\* was made, or with its id under another address), and one with a stopped
\* sql thread; the last one goes to the third server where the demotion
\* target itself used to be.
SavedConns ==
    {SavedConn("a", ExtHost, ServerIdOfHost(ExtHost), TRUE),
     SavedConn("b", "srv3", 3, TRUE),
     SavedConn("c", SwP, ServerIdOfHost(SwP), TRUE),
     SavedConn("c", SwP, 7, TRUE),
     SavedConn("d", "ext2", ServerIdOfHost(SwP), TRUE),
     SavedConn("e", "ext2", 8, FALSE),
     SavedConn("b", "ext2", 8, TRUE),
     SavedConn("a", "srv1", 3, TRUE)}

\* At most two of them, with different names.
SavedSeqs ==
    {<<>>} \cup {<<x>> : x \in SavedConns}
    \cup {p \in {<<x, y>> : x \in SavedConns, y \in SavedConns} :
            p[1].name # p[2].name /\ ~compare_rows(p[1], p[2])}

\* The connections the promotion target has of its own when it merges.
OwnConns ==
    {<<>>,
     <<SavedConn("a", "srv3", 3, TRUE)>>,
     <<[SavedConn("f", "srv3", 3, TRUE) EXCEPT !.slave_io_running = "CONNECTING",
                                               !.seen_connected = FALSE]>>,
     <<SavedConn("a", "srv3", 3, TRUE),
       SavedConn("To [ext]:3306", "ext2", 8, TRUE)>>}

InitConns ==
    /\ cmd = CmdIdle
    /\ \E own \in OwnConns :
          srv = [TickCluster EXCEPT ![SwP] =
                    [@ EXCEPT !.slave_status = own,
                              !.backend.conns =
                                  [i \in DOMAIN own |->
                                      [BackendConn(own[i].name,
                                                   own[i].master_host,
                                                   own[i].master_server_id,
                                                   "YES", TRUE)
                                          EXCEPT !.master_port = 3306]]]]
    /\ op = InitOp
    /\ sent = <<>>
    /\ now = 0
    /\ call = [name |-> "none"]
    /\ sw = [pc |-> "idle"]

\* Every command answers, or one of the first four fails.
ConnOracles ==
    {[fail |-> f, quirk |-> "none", dur |-> 0, base |-> Len(sent)] :
        f \in {{}} \cup {{i} : i \in 1..4}}

\* The effect of a call that returned r: cmds are the commands it sent.
ConnsCalled(name, conns, o, r) ==
    /\ srv' = r.m.srv
    /\ op' = r.m.op
    /\ now' = now + 1
    /\ call' = [name |-> name, server |-> SwP, ok |-> r.ok, pre |-> srv,
                conns |-> conns, fail |-> o.fail,
                cmds |-> SubSeq(r.m.sent, Len(sent) + 1, Len(r.m.sent))]
    /\ UNCHANGED <<cmd, sent, sw>>

\* copy_slave_conns, called as promote calls it in a switchover: the target
\* has no connection of its own left.
CopyConns ==
    /\ now < MaxConnCalls
    /\ srv[SwP].slave_status = <<>>
    /\ srv[SwP].backend.conns = <<>>
    /\ \E conns \in SavedSeqs, o \in ConnOracles :
          ConnsCalled("copy_slave_conns", conns, o,
                      copy_slave_conns(Machine, SwP, conns, SwD, o))

\* merge_slave_conns, called as promote calls it in a failover.
MergeConns ==
    /\ now < MaxConnCalls
    /\ \E conns \in SavedSeqs, o \in ConnOracles :
          ConnsCalled("merge_slave_conns", conns, o,
                      merge_slave_conns(Machine, SwP, conns, o))

NextConns == CopyConns \/ MergeConns

SpecConns == InitConns /\ [][NextConns]_vars

(***************************************************************************)
(* The four direct reads of one server, each called on its own against a   *)
(* backend that has changed since the cache was filled.                    *)
(***************************************************************************)
\* How many reads are followed.
MaxReads == 2

\* The cache holds what an earlier tick read; since then the backend has
\* turned read_only on and log_slave_updates off and has moved on to
\* another position.
InitDirect ==
    /\ cmd = CmdIdle
    /\ \E conns \in SeqsUpTo2(PreviousConns), tc \in BOOLEAN, gtid \in BOOLEAN,
          type \in {"NORMAL", "BINLOG_ROUTER"},
          old \in {<<>>, <<BuildRow(<<>>, ToMaster(""), TRUE, <<>>, 0)>>} :
          srv = [TickCluster EXCEPT ![TickServer] =
                    [@ EXCEPT !.slave_status = old,
                              !.master_id = IF old = <<>> THEN SERVER_ID_UNKNOWN
                                            ELSE old[1].master_server_id,
                              !.capabilities.gtid = gtid,
                              !.srv_type = type,
                              !.topology_changed = tc,
                              !.read_only = FALSE,
                              !.backend.read_only = TRUE,
                              !.backend.conns = conns,
                              !.backend.rpl_settings.log_slave_updates = FALSE,
                              !.backend.gtid_current_pos = Gtid(3),
                              !.backend.gtid_binlog_pos = Gtid(3)]]
    /\ op = InitOp
    /\ sent = <<>>
    /\ now = 0
    /\ call = [name |-> "none"]
    /\ sw = [pc |-> "idle"]

\* The effect of the read `name` that returned r under oracle o.
DirectRead(name, o, r) ==
    /\ srv' = r.m.srv
    /\ now' = now + 1
    /\ call' = [name |-> name, server |-> TickServer, ok |-> r.ok,
                pre |-> srv, fail |-> o.fail, quirk |-> o.quirk,
                query |-> Last(r.m.sent).cmd.kind]
    /\ UNCHANGED <<cmd, op, sent, sw>>

ReadVariables ==
    /\ now < MaxReads
    /\ \E o \in ReadOracles({"none", "norow", "bad_id", "bad_domain"}) :
          DirectRead("read_server_variables", o,
                     read_server_variables(Machine, TickServer, o))

ReadSlaveStatus ==
    /\ now < MaxReads
    /\ \E o \in ReadOracles({"none", "cols39", "cols40", "cols41", "nocolumn"}) :
          DirectRead("update_slave_status", o,
                     update_slave_status(Machine, TickServer, o))

ReadGtids ==
    /\ now < MaxReads
    /\ \E o \in ReadOracles({"none", "norow"}) :
          DirectRead("update_gtids", o, update_gtids(Machine, TickServer, o))

ReadSettings ==
    /\ now < MaxReads
    /\ \E o \in ReadOracles({"none", "norow"}) :
          DirectRead("update_replication_settings", o,
                     update_replication_settings(Machine, TickServer, o))

NextDirect == ReadVariables \/ ReadSlaveStatus \/ ReadGtids \/ ReadSettings

SpecDirect == InitDirect /\ [][NextDirect]_vars

(***************************************************************************)
(* A run of ticks of one server and the warnings they write.               *)
(***************************************************************************)
\* How many ticks of a run are followed.
MaxWarnTicks == 4

\* The latch is armed, or a run of failures is under way that has warned.
InitWarn ==
    /\ cmd = CmdIdle
    /\ \E armed \in BOOLEAN, type \in {"NORMAL", "BINLOG_ROUTER"} :
          /\ srv = [TickCluster EXCEPT ![TickServer] =
                       [@ EXCEPT !.print_update_errormsg = armed,
                                 !.srv_type = type]]
          /\ call = [name |-> "none", warned |-> FALSE,
                     in_run |-> (IF armed THEN 0 ELSE 1), ticks |-> 0]
    /\ op = InitOp
    /\ sent = <<>>
    /\ now = 0
    /\ sw = [pc |-> "idle"]

\* A tick where every query answers, one where one of the four queries
\* fails, and ones where a result is turned down.
WarnOracles ==
    {[fail |-> f, quirk |-> "none", dur |-> 0, base |-> Len(sent)] :
        f \in TickFailures}
    \cup {[fail |-> {}, quirk |-> q, dur |-> 0, base |-> Len(sent)] :
             q \in {"cols41", "bad_id"}}

\* The effect of a tick that returned r: in_run counts the warnings of the
\* run of failed ticks that is under way.
WarnTicked(r, o) ==
    /\ srv' = r.m.srv
    /\ now' = r.m.now
    /\ call' = [name |-> "tick", ok |-> r.ok, fail |-> o.fail,
                quirk |-> o.quirk,
                warned |-> Len(r.m.op.log) > Len(op.log),
                in_run |-> IF r.ok THEN 0
                           ELSE call.in_run
                                + (IF Len(r.m.op.log) > Len(op.log)
                                   THEN 1 ELSE 0),
                ticks |-> call.ticks + 1,
                before |-> call]

WarnTick ==
    /\ now < MaxWarnTicks
    /\ \E o \in WarnOracles :
          WarnTicked(monitor_server([Machine EXCEPT !.now = now + 1],
                                    TickServer, o), o)
    /\ UNCHANGED <<cmd, op, sent, sw>>

NextWarn == WarnTick

SpecWarn == InitWarn /\ [][NextWarn]_vars

(***************************************************************************)
(* promote of a switchover on a server whose backend may have been given   *)
(* a channel since the last tick                                           *)
(***************************************************************************)
\* A channel created on the backend after the monitor last read the slave
\* status: the cache does not have it.
NewChannel == BackendConn("n", "ext2", ServerIdOfHost("ext2"), "YES", TRUE)

InitPromote ==
    /\ cmd = CmdIdle
    /\ \E c \in Clusters({2}), added \in BOOLEAN :
          srv = IF added
                THEN [c EXCEPT !["srv2"].backend.conns = Append(@, NewChannel)]
                ELSE c
    /\ op = InitOp
    /\ sent = <<>>
    /\ now = 0
    /\ call = [name |-> "none"]
    /\ sw = [pc |-> "idle"]

PromoteSwitchover ==
    /\ call.name = "none"
    /\ \E tfm \in BOOLEAN, he \in BOOLEAN, file \in {"", "promote.sql"},
          o \in Oracles(Len(sent)) :
          LET promotion == Plan("srv2", "srv1", tfm, he, file)
          IN Returned(promote(Machine, "srv2", promotion, "SWITCHOVER",
                              "srv1", o),
                      CallRecord("promote", "srv2", promotion, "SWITCHOVER",
                                 o))
    /\ UNCHANGED <<cmd, sw>>

NextPromote == PromoteSwitchover

SpecPromote == InitPromote /\ [][NextPromote]_vars

(***************************************************************************)
(* kick_out_super_users on its own, with up to two super-users connected    *)
(***************************************************************************)
\* The largest number of super-user connections.
MaxSupers == 2

\* The connection ids of the super-users.
SuperIds == {6 + i : i \in 1..MaxSupers}

InitKick ==
    /\ cmd = CmdIdle
    /\ \E c \in Clusters({2}), ids \in SUBSET SuperIds :
          srv = [c EXCEPT !["srv1"].backend.supers = ids]
    /\ \E b \in Budgets : op = [InitOp EXCEPT !.time_remaining = b]
    /\ sent = <<>>
    /\ now = 0
    /\ call = [name |-> "none"]
    /\ sw = [pc |-> "idle"]

\* The answers to the query and to the kills: any of them can fail.
KickOracles ==
    {[fail |-> f, quirk |-> q, dur |-> d, base |-> 0] :
        f \in SUBSET (1..(MaxSupers + 1)), q \in {"none", "denied"},
        d \in {0, 1}}

KickSuperUsers ==
    /\ call.name = "none"
    /\ \E o \in KickOracles :
          Returned(kick_out_super_users(Machine, "srv1", o),
                   [CallRecord("kick_out_super_users", "srv1", <<>>, "", o)
                       EXCEPT !.plan = o.fail])
    /\ UNCHANGED <<cmd, sw>>

NextKick == KickSuperUsers

SpecKick == InitKick /\ [][NextKick]_vars

(***************************************************************************)
(* disable_events and enable_events on their own                           *)
(***************************************************************************)
\* The largest number of commands of one call that fail.
MaxEventFailures == 2

\* The states a scheduled event can be in.
EventStatuses == {"ENABLED", "DISABLED", "SLAVESIDE_DISABLED"}

\* The user names of the definer of an event: plain, or with an '@' of its
\* own as in a mail address.
EventUsers == {<<"u">>, <<"u", "@", "v">>}

InitEvents ==
    /\ cmd = CmdIdle
    /\ \E c \in Clusters({2}), e \in [{"db.ev1", "db.ev2"} -> EventStatuses],
          user \in EventUsers :
          srv = [c EXCEPT !["srv1"].backend.events = e,
                          !["srv1"].backend.definers["db.ev1"].user = user]
    /\ op = InitOp
    /\ sent = <<>>
    /\ now = 0
    /\ call = [name |-> "none"]
    /\ sw = [pc |-> "idle"]

\* The answers to the commands of one call: up to MaxEventFailures of the
\* first five fail.
EventOracles ==
    {[fail |-> f, quirk |-> "none", dur |-> 0, base |-> 0] :
        f \in {x \in SUBSET (1..5) : Cardinality(x) <= MaxEventFailures}}

DisableEvents ==
    /\ call.name = "none"
    /\ \E o \in EventOracles, mode \in {"BINLOG_OFF", "BINLOG_ON"} :
          Returned(disable_events(Machine, "srv1", mode, o),
                   [CallRecord("disable_events", "srv1", <<>>, mode, o)
                       EXCEPT !.plan = {}])
    /\ UNCHANGED <<cmd, sw>>

EnableEvents ==
    /\ call.name = "none"
    /\ \E o \in EventOracles, names \in SUBSET {"db.ev1", "db.ev2", "db.ev3"} :
          Returned(enable_events(Machine, "srv1", names, o),
                   [CallRecord("enable_events", "srv1", <<>>, "", o)
                       EXCEPT !.plan = names])
    /\ UNCHANGED <<cmd, sw>>

NextEvents == DisableEvents \/ EnableEvents

SpecEvents == InitEvents /\ [][NextEvents]_vars

(***************************************************************************)
(* reset_all_slave_conns on its own                                        *)
(***************************************************************************)
\* The largest number of commands of one reset that fail.
MaxResetFailures == 2

InitReset ==
    /\ cmd = CmdIdle
    /\ srv \in Clusters({2})
    /\ op = InitOp
    /\ sent = <<>>
    /\ now = 0
    /\ call = [name |-> "none"]
    /\ sw = [pc |-> "idle"]

ResetOracles ==
    {[fail |-> f, quirk |-> "none", dur |-> 0, base |-> 0] :
        f \in {x \in SUBSET (1..4) : Cardinality(x) <= MaxResetFailures}}

ResetAllSlaveConns ==
    /\ call.name = "none"
    /\ \E s \in Servers, o \in ResetOracles :
          Returned(reset_all_slave_conns(Machine, s, o),
                   [CallRecord("reset_all_slave_conns", s, <<>>, "", o)
                       EXCEPT !.plan = o.fail])
    /\ UNCHANGED <<cmd, sw>>

NextReset == ResetAllSlaveConns

SpecReset == InitReset /\ [][NextReset]_vars

(***************************************************************************)
(* The cycle search of the topology analyzer                               *)
(***************************************************************************)
\* The number of monitored servers in a replication graph.
MaxNodes == 3

Nodes == 1..MaxNodes

INDEX_NOT_VISITED == 0
CYCLE_NONE == 0

\* The replication graphs: for every node the set of nodes it replicates
\* from (its parents). A connection of a node to its own address is an edge
\* like any other.
Graphs == [Nodes -> SUBSET Nodes]

\* NodeData() for every node, an empty stack and the first index and cycle
\* id to hand out.
NewNodeData ==
    [index |-> [n \in Nodes |-> INDEX_NOT_VISITED],
     lowest_index |-> [n \in Nodes |-> INDEX_NOT_VISITED],
     in_stack |-> [n \in Nodes |-> FALSE],
     cycle |-> [n \in Nodes |-> CYCLE_NONE],
     stack |-> <<>>, next_index |-> 1, next_cycle |-> 1]

\* Node v is entered: it gets the next index and goes onto the stack.
Entered(t, v) ==
    [t EXCEPT !.index[v] = t.next_index, !.lowest_index[v] = t.next_index,
              !.in_stack[v] = TRUE, !.stack = Append(@, v),
              !.next_index = @ + 1]

\* After the visit of parent w, v takes over a lower lowest_index of w.
LowestAfterVisit(t, v, w) ==
    [t EXCEPT !.lowest_index[v] = Min(@, t.lowest_index[w])]

\* An update for a parent seen before that does not ask whether the parent
\* is still on the stack.
LowestOfAnySeen(t, v, w) ==
    [t EXCEPT !.lowest_index[v] = Min(@, t.index[w])]

\* A parent w seen before lowers the lowest_index of v only while w is on
\* the stack.
LowestOfSeen(t, v, w) ==
    IF t.in_stack[w]
    THEN [t EXCEPT !.lowest_index[v] = Min(@, t.index[w])]
    ELSE t

\* The nodes on the stack from v upwards: the component v is the root of.
ComponentOf(t, v) ==
    {t.stack[i] : i \in {j \in DOMAIN t.stack :
                            \E k \in 1..j : t.stack[k] = v}}

\* The component of root v leaves the stack; if it has more than one node
\* its nodes get the next cycle id.
Popped(t, v, members) ==
    [t EXCEPT
       !.stack = SelectSeq(@, LAMBDA n : n \notin members),
       !.in_stack = [n \in Nodes |-> IF n \in members THEN FALSE ELSE @[n]],
       !.cycle = [n \in Nodes |->
                    IF n \in members /\ Cardinality(members) > 1
                    THEN t.next_cycle ELSE @[n]],
       !.next_cycle = IF Cardinality(members) > 1 THEN @ + 1 ELSE @]

\* The end of the visit of v: v is the root of a component when its
\* lowest_index is its own index.
Closed(t, v) ==
    IF t.lowest_index[v] = t.index[v] THEN Popped(t, v, ComponentOf(t, v))
    ELSE t

RECURSIVE VisitNode(_, _, _)
RECURSIVE VisitParents(_, _, _, _)
\* One parent w of v is looked at.
ParentSeen(g, t, v, w) ==
    IF t.index[w] = INDEX_NOT_VISITED
    THEN LowestAfterVisit(VisitNode(g, t, w), v, w)
    ELSE LowestOfSeen(t, v, w)

VisitParents(g, t, v, ws) ==
    IF ws = <<>> THEN t
    ELSE VisitParents(g, ParentSeen(g, t, v, Head(ws)), v, Tail(ws))

VisitNode(g, t, v) ==
    Closed(VisitParents(g, Entered(t, v), v, Ascending(g[v])), v)

\* The search is started from every node not visited yet, in the order of
\* the servers.
RECURSIVE VisitAll(_, _, _)
VisitAll(g, t, v) ==
    IF v > MaxNodes THEN t
    ELSE VisitAll(g,
                  IF t.index[v] = INDEX_NOT_VISITED THEN VisitNode(g, t, v)
                  ELSE t,
                  v + 1)

find_graph_cycles(g) == VisitAll(g, NewNodeData, 1)

InitCycles ==
    /\ cmd = CmdIdle
    /\ srv = CHOOSE c \in InitialClusters : TRUE
    /\ op = InitOp
    /\ sent = <<>>
    /\ now = 0
    /\ \E g \in Graphs : call = [name |-> "none", graph |-> g]
    /\ sw = [pc |-> "idle"]

FindGraphCycles ==
    /\ call.name = "none"
    /\ call' = [name |-> "find_graph_cycles", graph |-> call.graph,
                node |-> find_graph_cycles(call.graph)]
    /\ UNCHANGED <<cmd, srv, op, sent, now, sw>>

NextCycles == FindGraphCycles

SpecCycles == InitCycles /\ [][NextCycles]_vars

(***************************************************************************)
(* events_ahead on any two lists                                           *)
(***************************************************************************)
\* The domains a list can have.
GtidDomains == {0, 1}

\* The lists over these domains: a domain is absent or has a sequence
\* number of SeqBits bits.
GtidLists ==
    {{[domain |-> d, server_id |-> 1, sequence |-> f[d]] :
         d \in {x \in GtidDomains : f[x] >= 0}} :
        f \in [GtidDomains -> (0 - 1)..(2 ^ SeqBits - 1)]}

InitAhead ==
    /\ cmd = CmdIdle
    /\ srv = CHOOSE c \in InitialClusters : TRUE
    /\ op = InitOp
    /\ sent = <<>>
    /\ now = 0
    /\ \E a \in GtidLists, b \in GtidLists :
          call = [name |-> "none", lhs |-> a, rhs |-> b]
    /\ sw = [pc |-> "idle"]

EventsAhead ==
    /\ call.name = "none"
    /\ call' = [name |-> "events_ahead", lhs |-> call.lhs, rhs |-> call.rhs,
                events |-> events_ahead(call.lhs, call.rhs)]
    /\ UNCHANGED <<cmd, srv, op, sent, now, sw>>

NextAhead == EventsAhead

SpecAhead == InitAhead /\ [][NextAhead]_vars

(***************************************************************************)
(* One tick of servers of every kind                                       *)
(***************************************************************************)
\* The most ticks one behaviour has.
MaxOrderTicks == 1

InitOrder ==
    /\ cmd = CmdIdle
    /\ \E type \in {"NORMAL", "BINLOG_ROUTER"}, basic \in BOOLEAN,
          gtid \in BOOLEAN, events \in BOOLEAN :
          srv = [TickCluster EXCEPT ![TickServer] =
                    [@ EXCEPT !.srv_type = type,
                              !.capabilities.basic_support = basic,
                              !.capabilities.gtid = gtid,
                              !.query_events = events,
                              !.backend.read_only = ~@,
                              !.backend.conns = <<ToMaster("a"), ToExt("b")>>,
                              !.backend.gtid_current_pos = Gtid(3),
                              !.backend.gtid_binlog_pos = Gtid(3),
                              !.backend.events =
                                  [e \in DOMAIN @ |-> "ENABLED"]]]
    /\ op = InitOp
    /\ sent = <<>>
    /\ now = 0
    /\ call = [name |-> "none"]
    /\ sw = [pc |-> "idle"]

\* Every query answers, or one of the four fails, or a result is turned
\* down for its values or its columns.
OrderOracles ==
    {[fail |-> f, quirk |-> q, dur |-> 0, base |-> Len(sent)] :
        f \in TickFailures, q \in {"none", "bad_id", "cols41"}}

OrderTicked(o, r) ==
    /\ srv' = r.m.srv
    /\ sent' = r.m.sent
    /\ now' = now + 1
    /\ call' = [name |-> "monitor_server", server |-> TickServer,
                ok |-> r.ok, pre |-> srv, fail |-> o.fail, quirk |-> o.quirk,
                first |-> Len(sent) + 1]
    /\ UNCHANGED <<cmd, op, sw>>

OrderTick ==
    /\ now < MaxOrderTicks
    /\ \E o \in OrderOracles :
          OrderTicked(o, monitor_server(Machine, TickServer, o))

NextOrder == OrderTick

SpecOrder == InitOrder /\ [][NextOrder]_vars

(***************************************************************************)
(* The two waiting loops, iteration by iteration                           *)
(***************************************************************************)
\* The loop of execute_cmd_time_limit as it is entered. `turn` changes with
\* every iteration; `retried` tells that an attempt has been repeated.
CmdLoopEntered(limit, prefixed) ==
    [pc |-> "cmd", time_limit |-> limit, prefixed |-> prefixed, timer |-> 0,
     cmd_success |-> FALSE, keep_trying |-> TRUE, turn |-> FALSE,
     retried |-> FALSE]

\* The loop of catchup_to_master as it is entered with a budget. `since` is
\* the time gone by since the stopwatch was read last.
CatchupLoopEntered(budget) ==
    [pc |-> "catchup", time_remaining |-> budget,
     sleep_time |-> CatchupFirstSleep, since |-> 0, time_is_up |-> FALSE,
     gtid_reached |-> FALSE, error |-> FALSE, turn |-> FALSE,
     retried |-> FALSE]

InitLive ==
    /\ cmd = CmdIdle
    /\ srv = <<>>
    /\ op = [time_remaining |-> 0, errors |-> <<>>]
    /\ sent = <<>>
    /\ now = 0
    /\ call = [name |-> "none"]
    /\ sw \in {CmdLoopEntered(limit, prefixed) :
                  limit \in (0 - TicksPerSec)..MaxLimit, prefixed \in BOOLEAN}
              \cup {CatchupLoopEntered(budget) :
                       budget \in (0 - TicksPerSec)..MaxLimit}

\* The state of the loop of execute_cmd_time_limit after an attempt that
\* took query_time and left time_remaining.
LiveAttempted(success, keep, query_time, time_remaining) ==
    [sw EXCEPT
       !.cmd_success = success,
       !.keep_trying = keep,
       !.timer = @ + query_time
                 + (IF ~success /\ keep
                    THEN QuerySleep(query_time, time_remaining) ELSE 0),
       !.turn = ~@,
       !.retried = @ \/ (~success /\ keep)]

\* One iteration of the loop of execute_cmd_time_limit.
LiveCmdAttempt ==
    /\ sw.pc = "cmd"
    /\ ~sw.cmd_success /\ sw.keep_trying
    /\ \E outcome \in AttemptOutcomes, query_time \in 0..MaxQueryTime :
          sw' = LiveAttempted(outcome = "OK",
                    KeepTrying(sw.time_limit - (sw.timer + query_time),
                               ErrnoOf(outcome), sw.prefixed),
                    query_time, sw.time_limit - (sw.timer + query_time))
    /\ UNCHANGED <<cmd, srv, op, sent, now, call>>

LiveCmdReturn ==
    /\ sw.pc = "cmd"
    /\ sw.cmd_success \/ ~sw.keep_trying
    /\ sw' = [sw EXCEPT !.pc = "done"]
    /\ UNCHANGED <<cmd, srv, op, sent, now, call>>

\* The target is not reached after a poll: the stopwatch is read, and if
\* time remains the thread sleeps and sleeps longer the next time. The sleep
\* time is only ever compared with the time left, so it is kept no larger
\* than the largest budget.
LiveBehind(time_remaining) ==
    IF time_remaining > 0
    THEN [sw EXCEPT !.time_remaining = time_remaining,
                    !.since = Min(sw.sleep_time, time_remaining),
                    !.sleep_time = Min(@ + CatchupSleepStep, MaxLimit + 1),
                    !.turn = ~@, !.retried = TRUE]
    ELSE [sw EXCEPT !.time_remaining = time_remaining, !.time_is_up = TRUE,
                    !.turn = ~@]

\* One iteration of the loop of catchup_to_master: update_gtids fails, or
\* shows the target reached, or shows the server behind.
LiveCatchupPoll ==
    /\ sw.pc = "catchup"
    /\ ~sw.time_is_up /\ ~sw.gtid_reached /\ ~sw.error
    /\ \E answer \in {"error", "reached", "behind"},
          query_time \in 0..MaxQueryTime :
          sw' = CASE answer = "error" -> [sw EXCEPT !.error = TRUE, !.turn = ~@]
                  [] answer = "reached" ->
                        [sw EXCEPT !.gtid_reached = TRUE, !.turn = ~@]
                  [] OTHER ->
                        LiveBehind(sw.time_remaining - (sw.since + query_time))
    /\ UNCHANGED <<cmd, srv, op, sent, now, call>>

LiveCatchupReturn ==
    /\ sw.pc = "catchup"
    /\ sw.time_is_up \/ sw.gtid_reached \/ sw.error
    /\ sw' = [sw EXCEPT !.pc = "done"]
    /\ UNCHANGED <<cmd, srv, op, sent, now, call>>

NextLive ==
    LiveCmdAttempt \/ LiveCmdReturn \/ LiveCatchupPoll \/ LiveCatchupReturn

\* The thread that runs the loop is scheduled: a loop that can take a step
\* takes one.
SpecLive == InitLive /\ [][NextLive]_vars /\ WF_vars(NextLive)

NextCmd == CmdCall \/ CmdAttempt \/ CmdReturn

InitCmd ==
    /\ cmd = CmdIdle
    /\ srv = <<>>
    /\ op = [time_remaining |-> 0, errors |-> <<>>]
    /\ sent = <<>>
    /\ now = 0
    /\ call = [name |-> "none"]
    /\ sw = [pc |-> "idle"]

SpecCmd == InitCmd /\ [][NextCmd]_vars

(***************************************************************************)
(* Properties of execute_cmd_time_limit                                    *)
(***************************************************************************)
\* An attempt the loop treats as transient: a connector network error, or an
\* interruption by the max_statement_time the prefix set.
Transient(h) ==
    \/ mxs_mysql_is_net_error(h.errornum)
    \/ (cmd.prefixed /\ h.errornum = ER_STATEMENT_TIMEOUT)

\* C7: the command is sent at least once for every budget, and when the
\* budget is zero or negative at the call exactly one attempt is made and
\* its result is the result of the call.
C7_AtLeastOneAttempt ==
    cmd.pc = "done" =>
        /\ Len(cmd.hist) >= 1
        /\ cmd.time_limit <= 0 =>
              /\ Len(cmd.hist) = 1
              /\ cmd.result = (cmd.hist[1].outcome = "OK")

\* A call with an exhausted budget whose only attempt met a network error.
C7_Witness ==
    /\ cmd.pc = "done"
    /\ cmd.time_limit <= 0
    /\ Len(cmd.hist) = 1
    /\ mxs_mysql_is_net_error(cmd.hist[1].errornum)
    /\ ~cmd.result

\* C8: a failed attempt is followed by another one exactly when budget
\* remains and the error was transient; any other failure ends the loop with
\* result false, a success ends it with result true.
C8_RetryIffTransientAndBudget ==
    /\ \A i \in 1..Len(cmd.hist) :
          i < Len(cmd.hist) =>
              /\ cmd.hist[i].outcome # "OK"
              /\ cmd.hist[i].time_remaining > 0
              /\ Transient(cmd.hist[i])
    /\ cmd.pc = "done" =>
          LET h == Last(cmd.hist)
          IN IF h.outcome = "OK"
             THEN cmd.result
             ELSE /\ ~cmd.result
                  /\ ~(h.time_remaining > 0 /\ Transient(h))

\* A call that retried after a network error and then ended on another error
\* although budget remained.
C8_Witness ==
    /\ cmd.pc = "done"
    /\ Len(cmd.hist) = 2
    /\ mxs_mysql_is_net_error(cmd.hist[1].errornum)
    /\ cmd.hist[2].errornum \in OtherErrnos
    /\ cmd.hist[2].time_remaining > 0

\* C9 as stated: a failure with ER_STATEMENT_TIMEOUT is retried while budget
\* remains, whether or not the prefix was added.
C9_StatementTimeoutAlwaysRetried ==
    cmd.pc = "done" =>
        \A i \in 1..Len(cmd.hist) :
            (cmd.hist[i].errornum = ER_STATEMENT_TIMEOUT
             /\ cmd.hist[i].time_remaining > 0) => i < Len(cmd.hist)

\* C9 amended: with budget remaining, a failure with ER_STATEMENT_TIMEOUT is
\* retried exactly when the max_statement_time prefix was added to the
\* command; without the prefix it ends the loop with result false.
C9_StatementTimeoutRetriedIffPrefixed ==
    cmd.pc = "done" =>
        \A i \in 1..Len(cmd.hist) :
            (cmd.hist[i].errornum = ER_STATEMENT_TIMEOUT
             /\ cmd.hist[i].time_remaining > 0) =>
                /\ (i < Len(cmd.hist)) = cmd.prefixed
                /\ ~cmd.prefixed => ~cmd.result

\* An unprefixed command that ended on ER_STATEMENT_TIMEOUT with budget left.
C9_Witness ==
    /\ cmd.pc = "done"
    /\ ~cmd.prefixed
    /\ Last(cmd.hist).errornum = ER_STATEMENT_TIMEOUT
    /\ Last(cmd.hist).time_remaining > 0

\* C10: the k-th attempt starts at least min(k-1, floor(B)) seconds after
\* the first one, B being the time limit.
C10_RetryRateBound ==
    \A k \in 1..Len(cmd.hist) :
        cmd.hist[k].start - cmd.hist[1].start >=
            Min((k - 1) * TicksPerSec, (cmd.time_limit \div TicksPerSec) * TicksPerSec)

\* Three attempts, the first of which returned at once and was followed by
\* a sleep of a full second.
C10_Witness ==
    /\ Len(cmd.hist) >= 3
    /\ cmd.hist[1].query_time = 0
    /\ cmd.hist[2].start = TicksPerSec

(***************************************************************************)
(* Reading the log of sent commands                                        *)
(***************************************************************************)
Label(c) ==
    IF c.kind = "READ_ONLY"
    THEN (IF c.value = 1 THEN "READ_ONLY1" ELSE "READ_ONLY0")
    ELSE c.kind

\* The positions of the log that hold a command of one of the labels.
At(labels) == {i \in DOMAIN sent : Label(sent[i].cmd) \in labels}

AllOk(positions) == \A i \in positions : sent[i].ok

Before(first, second) == \A i \in first, j \in second : i < j

ConnNames(status) == {status[i].name : i \in DOMAIN status}

RemovalCmds == {"STOP", "RESET_ALL"}
RereadCmds == {"SHOW_ALL_SLAVES_STATUS", "SHOW_SLAVE_STATUS"}
KickCmds == {"SELECT_SUPER_USERS", "KILL"}
EventCmds == {"SQL_LOG_BIN", "SELECT_EVENTS", "ALTER_EVENT",
              "SELECT_EVENT_SCHEDULER"}
CreateCmds == {"CHANGE", "START"}

\* The event commands whose failure fails the step: the scheduler query and
\* the switching back of sql_log_bin are not among them.
EventsOk ==
    \A i \in At(EventCmds) :
        \/ sent[i].ok
        \/ sent[i].cmd.kind = "SELECT_EVENT_SCHEDULER"
        \/ (sent[i].cmd.kind = "SQL_LOG_BIN" /\ sent[i].cmd.value = 1)

(***************************************************************************)
(* remove_slave_conns                                                      *)
(***************************************************************************)
RemoveDone == call.name = "remove_slave_conns"

\* C6: when remove_slave_conns returns true, every connection was stopped
\* and reset, the slave status was read again after the last removal, the
\* cache holds what the backend then had and none of the removed names; when
\* a STOP or RESET fails, the re-read fails or a removed name is still in
\* the re-read status, it returns false.
C6_RemoveTrueMeansGone ==
    RemoveDone =>
        LET names == ConnNames(call.plan)
            cached == srv[call.server].slave_status
            backend == srv[call.server].backend.conns
        IN /\ call.ok =>
                /\ At(RereadCmds) # {} /\ AllOk(At(RereadCmds))
                /\ Before(At(RemovalCmds), At(RereadCmds))
                /\ \A n \in names : \A k \in RemovalCmds :
                      \E i \in At({k}) : sent[i].cmd.name = n /\ sent[i].ok
                /\ ConnNames(cached) \cap names = {}
                /\ Len(cached) = Len(backend)
                /\ \A i \in DOMAIN cached :
                      /\ cached[i].name = backend[i].name
                      /\ cached[i].master_host = backend[i].master_host
           /\ ~AllOk(At(RemovalCmds)) => ~call.ok
           /\ ~AllOk(At(RereadCmds)) => ~call.ok
           /\ (At(RereadCmds) # {} /\ AllOk(At(RereadCmds))
               /\ ConnNames(cached) \cap names # {}) => ~call.ok

\* Two connections were removed and the call returned true.
C6_Witness ==
    /\ RemoveDone /\ call.ok
    /\ Len(call.plan) = 2
    /\ Len(srv[call.server].slave_status) = 0

\* The backend kept a connection after a successful RESET SLAVE ALL.
C6_WitnessStillPresent ==
    /\ RemoveDone /\ ~call.ok
    /\ AllOk(At(RemovalCmds \cup RereadCmds))
    /\ At(RemovalCmds) # {}

(***************************************************************************)
(* demote                                                                  *)
(***************************************************************************)
DemoteDone == call.name = "demote"

DemoteSteps ==
    <<RemovalCmds \cup RereadCmds, KickCmds, {"READ_ONLY1"}, EventCmds,
      {"FILE_LINE"}, {"FLUSH_LOGS"}, {"SELECT_GTIDS"}>>

\* Step k of the demote that ran did what it had to.
DemoteStepOk(k) ==
    CASE k = 1 -> /\ AllOk(At(DemoteSteps[1]))
                  /\ At(RereadCmds) # {}
                  /\ ConnNames(call.pre[call.server].slave_status)
                         \cap ConnNames(srv[call.server].slave_status) = {}
      [] k = 2 -> /\ At(KickCmds) # {}
                  /\ \/ AllOk(At(KickCmds))
                     \/ (call.quirk = "denied" /\ At({"KILL"}) = {})
      [] k = 3 -> At(DemoteSteps[3]) # {} /\ AllOk(At(DemoteSteps[3]))
      [] k = 4 -> call.plan.handle_events => (At(EventCmds) # {} /\ EventsOk)
      [] k = 5 -> call.plan.sql_file # "" =>
                      /\ call.quirk # "nofile"
                      /\ At({"FILE_LINE"}) # {} /\ AllOk(At({"FILE_LINE"}))
      [] k = 6 -> At(DemoteSteps[6]) # {} /\ AllOk(At(DemoteSteps[6]))
      [] OTHER -> At(DemoteSteps[7]) # {} /\ AllOk(At(DemoteSteps[7]))

\* Step k has nothing to send in this run even when it is reached.
DemoteStepSilent(k) ==
    \/ k = 4 /\ ~call.plan.handle_events
    \/ k = 5 /\ (call.plan.sql_file = "" \/ call.quirk = "nofile")

\* C3: a demote with to_from_master sends its commands in the order channel
\* removal, super-user kick, read_only=1, event disabling, sql file, FLUSH
\* LOGS, gtid query; a step is taken exactly when all steps before it
\* succeeded; the MASTER bit is set as before during the removal and clear
\* from the kick on; the call returns true only if FLUSH LOGS and then the
\* gtid query succeeded.
C3_DemoteOrder ==
    (DemoteDone /\ call.plan.to_from_master) =>
        /\ \A k \in 1..7 : \A j \in (k + 1)..7 :
              Before(At(DemoteSteps[k]), At(DemoteSteps[j]))
        /\ \A k \in 2..7 :
              At(DemoteSteps[k]) # {} => \A j \in 1..(k - 1) : DemoteStepOk(j)
        /\ \A k \in 2..7 :
              (\A j \in 1..(k - 1) : DemoteStepOk(j)) =>
                  (At(DemoteSteps[k]) # {} \/ DemoteStepSilent(k))
        /\ ~call.plan.handle_events => At(EventCmds) = {}
        /\ call.plan.sql_file = "" => At({"FILE_LINE"}) = {}
        /\ \A i \in DOMAIN sent :
              IF i \in At(DemoteSteps[1])
              THEN sent[i].bits = call.pre[call.server].status
              ELSE "MASTER" \notin sent[i].bits
        /\ DemoteStepOk(1) => "MASTER" \notin srv[call.server].status
        /\ ~DemoteStepOk(1) =>
              srv[call.server].status = call.pre[call.server].status
        /\ call.ok <=> \A k \in 1..7 : DemoteStepOk(k)
        /\ call.ok => /\ Before(At({"FLUSH_LOGS"}), At({"SELECT_GTIDS"}))
                      /\ AllOk(At({"FLUSH_LOGS", "SELECT_GTIDS"}))
                      /\ At({"SELECT_GTIDS"}) # {}

\* The master, with a channel of its own, events and a sql file, was demoted.
C3_Witness ==
    /\ DemoteDone /\ call.ok
    /\ call.plan.to_from_master /\ call.plan.handle_events
    /\ call.plan.sql_file # ""
    /\ "MASTER" \in call.pre[call.server].status
    /\ call.pre[call.server].slave_status # <<>>
    /\ At({"KILL"}) # {} /\ At({"ALTER_EVENT"}) # {}

\* C4: demote sends SET GLOBAL read_only=0 exactly in the runs in which
\* read_only=1 was issued and the demote failed; it is sent once, with a zero
\* time limit, after every other command, and reports no error. A demote
\* that fails before read_only=1 was issued, and one that succeeds, do not
\* send it.
C4_RestoreOnlyAfterReadOnlyIssued ==
    DemoteDone =>
        /\ At({"READ_ONLY0"}) # {} <=> (At({"READ_ONLY1"}) # {} /\ ~call.ok)
        /\ \A i \in At({"READ_ONLY0"}) :
              /\ i = Len(sent)
              /\ sent[i].limit = 0

\* What the code does: the restore is sent in every failed run of a demote
\* with to_from_master that got past the channel removal.
C4_RestoreAfterAnyFailure ==
    DemoteDone =>
        /\ At({"READ_ONLY0"}) # {} <=>
              (call.plan.to_from_master /\ ~call.ok /\ DemoteStepOk(1))
        /\ \A i \in At({"READ_ONLY0"}) :
              /\ i = Len(sent)
              /\ sent[i].limit = 0
              /\ sent[i].how = "time_limit"
              /\ ~sent[i].ok =>
                    ~\E e \in DOMAIN op.errors :
                         op.errors[e] = "Failed to disable read_only"

\* read_only=0 was sent although read_only=1 never was: the kick failed.
C4_WitnessRestoreWithoutReadOnly ==
    /\ DemoteDone
    /\ At({"READ_ONLY0"}) # {}
    /\ At({"READ_ONLY1"}) = {}
    /\ ~AllOk(At(KickCmds))

(***************************************************************************)
(* promote                                                                 *)
(***************************************************************************)
PromoteDone == call.name = "promote"

PromoteSteps ==
    <<RemovalCmds \cup RereadCmds, {"READ_ONLY0"},
      {"SELECT_EVENTS", "ALTER_EVENT", "SELECT_EVENT_SCHEDULER"},
      {"FILE_LINE"}, CreateCmds>>

\* The connections of the promotion target that point at the demotion target.
ToDemoted(status) ==
    SelectSeq(status, LAMBDA x : x.master_host = Address("srv1"))

\* The connections step 1 of the promote that ran had to remove.
PromoteRemoved ==
    IF call.type = "SWITCHOVER"
    THEN ConnNames(call.pre[call.server].slave_status)
    ELSE ConnNames(ToDemoted(call.pre[call.server].slave_status))

PromoteStepOk(k) ==
    CASE k = 1 -> /\ AllOk(At(PromoteSteps[1]))
                  /\ At(RereadCmds) # {}
                  /\ \A n \in PromoteRemoved : \A c \in RemovalCmds :
                        \E i \in At({c}) : sent[i].cmd.name = n
                  /\ PromoteRemoved
                         \cap ConnNames(srv[call.server].slave_status) = {}
      [] k = 2 -> call.plan.to_from_master =>
                      (At({"READ_ONLY0"}) # {} /\ AllOk(At({"READ_ONLY0"})))
      [] k = 3 -> (call.plan.to_from_master /\ call.plan.handle_events) =>
                      (At({"SELECT_EVENTS"}) # {} /\ EventsOk)
      [] k = 4 -> (call.plan.to_from_master /\ call.plan.sql_file # "") =>
                      /\ call.quirk # "nofile"
                      /\ At({"FILE_LINE"}) # {} /\ AllOk(At({"FILE_LINE"}))
      [] OTHER -> AllOk(At(CreateCmds))

PromoteStepSilent(k) ==
    \/ k \in 2..4 /\ ~call.plan.to_from_master
    \/ k = 3 /\ ~call.plan.handle_events
    \/ k = 4 /\ (call.plan.sql_file = "" \/ call.quirk = "nofile")
    \/ k = 5

\* C5: promote sends its commands in the order channel removal, read_only=0,
\* event enabling, sql file, channel creation; the removal names all channels
\* of the target in a switchover and only the channel to the demotion target
\* in a failover; the middle three steps are taken only with to_from_master;
\* a step is taken exactly when all steps before it succeeded; the call
\* returns true iff every step succeeded.
C5_PromoteOrder ==
    PromoteDone =>
        /\ \A k \in 1..5 : \A j \in (k + 1)..5 :
              Before(At(PromoteSteps[k]), At(PromoteSteps[j]))
        /\ \A k \in 2..5 :
              At(PromoteSteps[k]) # {} => \A j \in 1..(k - 1) : PromoteStepOk(j)
        /\ \A k \in 2..5 :
              (\A j \in 1..(k - 1) : PromoteStepOk(j)) =>
                  (At(PromoteSteps[k]) # {} \/ PromoteStepSilent(k))
        /\ \A k \in 2..4 :
              (PromoteStepSilent(k) /\ k # 4) => At(PromoteSteps[k]) = {}
        /\ (~call.plan.to_from_master \/ call.plan.sql_file = "") =>
              At({"FILE_LINE"}) = {}
        /\ {sent[i].cmd.name : i \in At(RemovalCmds)} \subseteq PromoteRemoved
        /\ \A i \in At({"ALTER_EVENT"}) :
              sent[i].cmd.event \in call.plan.events_to_enable
        /\ \A i \in At({"CHANGE"}) :
              \E c \in DOMAIN call.plan.conns_to_copy :
                  sent[i].cmd.host = call.plan.conns_to_copy[c].master_host
                  \/ (call.type = "SWITCHOVER"
                      /\ sent[i].cmd.host = Address("srv1"))
        /\ call.ok <=> \A k \in 1..5 : PromoteStepOk(k)

\* A failover promoted a server with two channels: one removed, one kept,
\* and the channel of the old master was merged.
C5_Witness ==
    /\ PromoteDone /\ call.ok /\ call.type = "FAILOVER"
    /\ call.plan.to_from_master /\ call.plan.handle_events
    /\ call.plan.sql_file # ""
    /\ Len(call.pre[call.server].slave_status) = 2
    /\ At({"ALTER_EVENT"}) # {}
    /\ At({"CHANGE"}) # {}

(***************************************************************************)
(* The switchover                                                          *)
(***************************************************************************)
SwOrder == <<"demote", "redirect", "catchup", "promote">>

SwRan == sw.pc # "start"

\* The step of the switchover that sent the command at position k of the
\* log: <<step>>, or <<>> for a command of the monitor pass after it.
SwStepOf(k) ==
    LET hits == {i \in DOMAIN sw.log : sw.log[i].from < k /\ k <= sw.log[i].to}
    IN IF hits = {} THEN <<>> ELSE <<sw.log[CHOOSE i \in hits : TRUE].step>>

SwPromoteStarted ==
    \/ sw.pc \in {"promote", "done", "ticked"}
    \/ \E i \in DOMAIN sw.log : sw.log[i].step = "promote"

\* C2: the steps of a switchover run in the order demote, redirect, catchup,
\* promote, each only after the one before it returned success; the first
\* failure aborts the script; every command is sent by the step whose turn it
\* is, to the server of that step; promote is started, and read_only=0 sent
\* to P, only after D took read_only=1 and FLUSH LOGS and answered the gtid
\* query, and after P reached the gtid_binlog_pos D then had.
C2_SwitchoverOrder ==
    SwRan =>
        /\ \A i \in DOMAIN sw.log :
              /\ i <= Len(SwOrder) /\ sw.log[i].step = SwOrder[i]
              /\ i > 1 => (sw.log[i - 1].ok /\ sw.log[i].from = sw.log[i - 1].to)
              /\ i = 1 => sw.log[i].from = 0
        /\ (\E i \in DOMAIN sw.log : ~sw.log[i].ok) <=> sw.pc = "aborted"
        /\ sw.pc \notin {"aborted", "done", "ticked"} =>
              sw.pc = SwOrder[Len(sw.log) + 1]
        /\ sw.pc \in {"done", "ticked"} => Len(sw.log) = Len(SwOrder)
        /\ \A k \in DOMAIN sent :
              LET step == SwStepOf(k)
              IN /\ step = <<>> => sw.pc = "ticked"
                 /\ step = <<"demote">> => sent[k].server = SwD
                 /\ step = <<"redirect">> => sent[k].server \notin {SwD, SwP}
                 /\ step = <<"catchup">> =>
                       (sent[k].server = SwP /\ sent[k].cmd.kind = "SELECT_GTIDS")
                 /\ step = <<"promote">> => sent[k].server = SwP
        /\ (SwPromoteStarted
            \/ \E k \in At({"READ_ONLY0"}) : sent[k].server = SwP) =>
              /\ Len(sw.log) >= 3
              /\ \A i \in 1..3 : sw.log[i].ok
              /\ \E i \in At({"READ_ONLY1"}), j \in At({"FLUSH_LOGS"}),
                    k \in At({"SELECT_GTIDS"}) :
                    /\ i < j /\ j < k /\ k <= sw.log[1].to
                    /\ sent[i].ok /\ sent[j].ok /\ sent[k].ok
                    /\ sent[i].server = SwD /\ sent[j].server = SwD
                    /\ sent[k].server = SwD
              /\ srv[SwD].backend.read_only
              /\ srv[SwD].backend.logs_flushed
              /\ srv[SwD].gtid_binlog_pos = srv[SwD].backend.gtid_binlog_pos
              /\ events_ahead(srv[SwD].gtid_binlog_pos,
                              CatchupPosition(srv[SwP])) = 0

\* A switchover ran through: a slave was redirected, and P was behind D at
\* the first poll of the catchup.
C2_Witness ==
    /\ sw.pc = "done"
    /\ sw.log[2].to >= sw.log[2].from + 3
    /\ sw.log[3].to >= sw.log[3].from + 2
    /\ \E k \in At({"READ_ONLY0"}) : sent[k].server = SwP /\ sent[k].ok

\* The catchup ran out of time and the switchover stopped there.
C2_WitnessCatchupAborts ==
    /\ sw.pc = "aborted"
    /\ Len(sw.log) = 3
    /\ AllOk(DOMAIN sent)

\* The rows of a slave status array that point at server t.
RowsAt(status, t) ==
    {i \in DOMAIN status : /\ status[i].master_host = Address(t)
                           /\ status[i].master_port = Port(t)}

\* Each connection the slaves other than D and P had to D is now one to P.
SwOthersFollow ==
    \A x \in Servers \ {SwD, SwP} :
       \A i \in RowsAt(sw.pre[x].slave_status, SwD) :
          \E k \in RowsAt(srv[x].slave_status, SwP) :
              /\ srv[x].slave_status[k].name = sw.pre[x].slave_status[i].name
              /\ \E c \in DOMAIN srv[x].backend.conns :
                    /\ srv[x].backend.conns[c].name = srv[x].slave_status[k].name
                    /\ srv[x].backend.conns[c].using_gtid = "Current_Pos"

OpReturned == call.name \notin {"none", "tick"}

\* The time the returned operation took.
OpElapsed == now - call.now0

\* C11: op.time_remaining never increases, and when an operation returns it
\* has been reduced by at least the time the operation's steps took, the
\* KILLs of kick_out_super_users and the last poll of a catchup included.
C11_DeadlineChargedForEveryStep ==
    OpReturned =>
        /\ op.time_remaining <= call.budget
        /\ op.time_remaining <= call.budget - OpElapsed

\* What the code keeps of C11: the deadline never increases.
C11_DeadlineNeverIncreases ==
    OpReturned => op.time_remaining <= call.budget

\* kick_out_super_users killed a connection, which took time, and the
\* deadline is where it was.
C11_WitnessKillsNotCharged ==
    /\ OpReturned
    /\ call.name = "kick"
    /\ \E k \in At({"KILL"}) : sent[k].ok
    /\ OpElapsed > 0
    /\ op.time_remaining = call.budget

\* The only poll of a catchup reached the target, took time, and the
\* deadline is where it was.
C11_WitnessLastPollNotCharged ==
    /\ OpReturned
    /\ call.name = "catchup"
    /\ call.ok
    /\ Len(sent) = 1
    /\ OpElapsed > 0
    /\ op.time_remaining = call.budget

(***************************************************************************)
(* catchup_to_master                                                       *)
(***************************************************************************)
CatchupDone == call.name = "catchup"

\* The positions the backend of the catching-up server reported at the first
\* poll: nothing has changed them since the call.
FirstPollBinlogPos == call.pre[call.server].backend.gtid_binlog_pos
FirstPollCurrentPos == call.pre[call.server].backend.gtid_current_pos

\* The target was reached at the first poll, by the position the settings of
\* the server select.
ReachedAtFirstPoll ==
    /\ sent[1].ok
    /\ IF /\ call.pre[call.server].rpl_settings.log_bin
          /\ call.pre[call.server].rpl_settings.log_slave_updates
       THEN events_ahead(call.plan, FirstPollBinlogPos) = 0
       ELSE events_ahead(call.plan, FirstPollCurrentPos) = 0

\* C12: catchup_to_master polls the gtid position at least once, whatever
\* the budget, and returns true when the first poll shows that the target has
\* no events ahead of gtid_binlog_pos (log_bin and log_slave_updates on) or
\* of gtid_current_pos (otherwise).
C12_CatchupPollsAtLeastOnce ==
    CatchupDone =>
        /\ Len(sent) >= 1
        /\ sent[1].cmd.kind = "SELECT_GTIDS"
        /\ sent[1].server = call.server
        /\ ReachedAtFirstPoll => (call.ok /\ Len(sent) = 1 /\ op.errors = <<>>)

\* A catchup called with no budget left returned true after one poll, on a
\* server without log_slave_updates whose binlog position is behind.
C12_Witness ==
    /\ CatchupDone
    /\ call.budget <= 0
    /\ call.ok
    /\ Len(sent) = 1
    /\ ~call.pre[call.server].rpl_settings.log_slave_updates
    /\ events_ahead(call.plan, FirstPollBinlogPos) > 0

\* The polls of the catchup that were answered.
OkPolls == {k \in DOMAIN sent : sent[k].ok}

\* The position a poll compared, from what the backend answered to it.
PolledPosition(k) ==
    IF /\ call.pre[call.server].rpl_settings.log_bin
       /\ call.pre[call.server].rpl_settings.log_slave_updates
    THEN sent[k].binlog_pos ELSE sent[k].current_pos

\* C13: catchup_to_master returns true exactly when a poll saw the target
\* reached; it returns false with the timeout error, and nothing else, when
\* every poll was answered and none saw the target reached before the budget
\* ran out; it returns false at once with the gtid-update error, and nothing
\* else, when a poll fails; the cached positions are those of the last
\* answered poll, or those before the call if none was answered.
C13_CatchupResultAndError ==
    CatchupDone =>
        /\ call.ok <=> \E k \in OkPolls :
                          events_ahead(call.plan, PolledPosition(k)) = 0
        /\ call.ok => op.errors = <<>>
        /\ \A k \in DOMAIN sent : ~sent[k].ok => k = Len(sent)
        /\ (~call.ok /\ Last(sent).ok) =>
              /\ op.errors = <<"Slave catchup timed out">>
              /\ op.time_remaining <= 0
              /\ events_ahead(call.plan, CatchupPosition(srv[call.server])) > 0
        /\ ~Last(sent).ok =>
              /\ ~call.ok
              /\ op.errors
                   = <<"Failed to update gtid while waiting for catchup">>
        /\ IF OkPolls = {}
           THEN /\ srv[call.server].gtid_current_pos
                      = call.pre[call.server].gtid_current_pos
                /\ srv[call.server].gtid_binlog_pos
                      = call.pre[call.server].gtid_binlog_pos
           ELSE LET k == CHOOSE x \in OkPolls : \A y \in OkPolls : y <= x
                IN /\ srv[call.server].gtid_current_pos = sent[k].current_pos
                   /\ srv[call.server].gtid_binlog_pos = sent[k].binlog_pos

\* A catchup timed out after more than one poll, still behind the target.
C13_Witness ==
    /\ CatchupDone
    /\ ~call.ok
    /\ Len(sent) >= 2
    /\ AllOk(DOMAIN sent)
    /\ call.budget > 0

\* A poll failed after the backend had moved on: the cache holds what the
\* poll before it read, not what the backend has now.
C13_WitnessStaleCache ==
    /\ CatchupDone
    /\ ~Last(sent).ok
    /\ Len(sent) >= 2
    /\ srv[call.server].gtid_current_pos
          # srv[call.server].backend.gtid_current_pos

(***************************************************************************)
(* The replication password                                                *)
(***************************************************************************)
\* The message quotes a CHANGE MASTER TO command with the password in it.
ContainsPassword(e) ==
    /\ e.quoted.kind = "CHANGE"
    /\ e.quoted.password = op.replication_password

\* C14: no message written to a log sink and no object appended to the json
\* error array contains the replication password.
C14_PasswordNeverWritten ==
    \A i \in DOMAIN op.log : ~ContainsPassword(op.log[i])

\* What holds: the debug message of the generated command hides the
\* password, and a password is written only with the error message of a
\* CHANGE MASTER TO that failed.
C14_PasswordOnlyInFailureMessages ==
    \A i \in DOMAIN op.log :
       /\ op.log[i].sink = "debug" => ~ContainsPassword(op.log[i])
       /\ ContainsPassword(op.log[i]) =>
             \E k \in DOMAIN sent : sent[k].cmd.kind = "CHANGE" /\ ~sent[k].ok

\* A redirect whose CHANGE MASTER TO failed put the command, password
\* included, into the json error array.
C14_WitnessPasswordInJsonError ==
    /\ call.name = "redirect"
    /\ ~call.ok
    /\ \E i \in DOMAIN op.log :
          op.log[i].sink = "json" /\ ContainsPassword(op.log[i])

\* A create_start_slave whose CHANGE MASTER TO failed wrote the command,
\* password included, to the log.
C14_WitnessPasswordInLog ==
    /\ call.name = "create"
    /\ ~call.ok
    /\ \E i \in DOMAIN op.log :
          op.log[i].sink = "error" /\ ContainsPassword(op.log[i])

(***************************************************************************)
(* Result and error array                                                  *)
(***************************************************************************)
\* The operations that report into the json error array.
ReportingOps == {"promote", "demote", "catchup", "redirect", "remove_slave_conns"}

\* C15: promote, demote, catchup_to_master, redirect_existing_slave_conn and
\* remove_slave_conns return false exactly when they appended at least one
\* object to the json error array.
C15_ResultAgreesWithErrors ==
    call.name \in ReportingOps => (call.ok <=> op.errors = <<>>)

\* A promote failed because a connection could not be created:
\* create_start_slave reports nothing into the array, promote does.
C15_Witness ==
    /\ call.name = "promote"
    /\ ~call.ok
    /\ \E k \in At({"CHANGE"}) : ~sent[k].ok
    /\ Len(op.errors) = 1

\* A demote succeeded although the super-user query was refused: nothing was
\* reported.
C15_WitnessSuccess ==
    /\ call.name = "demote"
    /\ call.ok
    /\ call.plan.to_from_master
    /\ \E k \in At({"SELECT_SUPER_USERS"}) : ~sent[k].ok

(***************************************************************************)
(* The slave status rows a tick builds                                     *)
(***************************************************************************)
\* The last call read the slave status and published a new array.
StatusRead ==
    /\ call.name \in {"status", "update_slave_status"}
    /\ StatusPublished(call.fail)

\* The array before and after the last call.
OldStatus == call.pre[TickServer].slave_status
NewStatus == srv[TickServer].slave_status

\* The rows of the previous array for the master host and port of row n.
PreviousFor(n) ==
    {OldStatus[k] : k \in {j \in DOMAIN OldStatus :
        /\ OldStatus[j].master_host = n.master_host
        /\ OldStatus[j].master_port = n.master_port}}

\* C16: in a newly read row seen_connected is true when the io thread runs;
\* when it is connecting, true exactly when the previous tick had a row for
\* the same master host and port with seen_connected true and the same
\* master server id; false otherwise.
C16_SeenConnected ==
    StatusRead =>
        \A i \in DOMAIN NewStatus :
            NewStatus[i].seen_connected =
                (\/ NewStatus[i].slave_io_running = "YES"
                 \/ /\ NewStatus[i].slave_io_running = "CONNECTING"
                    /\ \E p \in PreviousFor(NewStatus[i]) :
                          /\ p.seen_connected
                          /\ p.master_server_id = NewStatus[i].master_server_id)

\* A connecting row kept seen_connected from the previous tick.
C16_Witness ==
    /\ StatusRead
    /\ \E i \in DOMAIN NewStatus :
          /\ NewStatus[i].slave_io_running = "CONNECTING"
          /\ NewStatus[i].seen_connected

\* A connecting row lost seen_connected because the master id changed.
C16_WitnessMasterIdChanged ==
    /\ StatusRead
    /\ \E i \in DOMAIN NewStatus :
          /\ NewStatus[i].slave_io_running = "CONNECTING"
          /\ ~NewStatus[i].seen_connected
          /\ \E p \in PreviousFor(NewStatus[i]) :
                p.seen_connected
                /\ p.master_server_id # NewStatus[i].master_server_id

\* C17: last_data_time of a newly read row is the value of the previous-tick
\* row for the same master host and port when that row exists, at whatever
\* index, and neither received_heartbeats nor gtid_io_pos differ from it;
\* otherwise it is the time of the read.
C17_LastDataTime ==
    StatusRead =>
        \A i \in DOMAIN NewStatus :
            IF \E p \in PreviousFor(NewStatus[i]) :
                  /\ p.received_heartbeats = NewStatus[i].received_heartbeats
                  /\ p.gtid_io_pos = NewStatus[i].gtid_io_pos
            THEN \E p \in PreviousFor(NewStatus[i]) :
                    NewStatus[i].last_data_time = p.last_data_time
            ELSE NewStatus[i].last_data_time = now

\* A row kept the time of a previous row that stood at another index.
C17_Witness ==
    /\ StatusRead
    /\ \E i \in DOMAIN NewStatus :
          /\ NewStatus[i].last_data_time < now
          /\ \/ i > Len(OldStatus)
             \/ OldStatus[i].master_host # NewStatus[i].master_host

\* A row with a previous row got the time of the read: its heartbeats or
\* its io position moved.
C17_WitnessDataArrived ==
    /\ StatusRead
    /\ \E i \in DOMAIN NewStatus :
          /\ NewStatus[i].last_data_time = now
          /\ PreviousFor(NewStatus[i]) # {}

\* The five fields of a row that make up the topology.
TopologyOf(row) ==
    <<row.slave_io_running, row.slave_sql_running, row.master_host,
      row.master_port, row.master_server_id>>

\* The previous and the new array differ in length or in a topology field.
TopologyDiffers ==
    \/ Len(OldStatus) # Len(NewStatus)
    \/ \E i \in DOMAIN NewStatus :
          TopologyOf(OldStatus[i]) # TopologyOf(NewStatus[i])

\* update_slave_status was called on its own and succeeded.
StatusUpdateDone == call.name = "update_slave_status" /\ call.ok

\* C18 as stated: after a successful update_slave_status topology_changed
\* is true exactly when the previous and the new array differ in topology,
\* whatever its value was before the call.
C18_TopologyChangedIsDifference ==
    StatusUpdateDone =>
        srv[TickServer].topology_changed = TopologyDiffers

\* C18 as built: after a successful update_slave_status topology_changed is
\* true when the arrays differ in topology, and otherwise has the value it
\* had before the call.
C18_TopologyChangedLatched ==
    StatusUpdateDone =>
        srv[TickServer].topology_changed =
            (TopologyDiffers \/ call.pre[TickServer].topology_changed)

\* The flag went from false to true because only a master server id changed.
C18_Witness ==
    /\ StatusUpdateDone
    /\ ~call.pre[TickServer].topology_changed
    /\ srv[TickServer].topology_changed
    /\ Len(OldStatus) = Len(NewStatus)
    /\ \A i \in DOMAIN NewStatus :
          /\ OldStatus[i].slave_io_running = NewStatus[i].slave_io_running
          /\ OldStatus[i].master_host = NewStatus[i].master_host

\* The flag was true before the call and stays true over equal arrays.
C18_WitnessStaysSet ==
    /\ StatusUpdateDone
    /\ call.pre[TickServer].topology_changed
    /\ ~TopologyDiffers
    /\ NewStatus # <<>>

\* The last two calls were ticks that both published a slave status, with
\* no change of the backend between them.
TwoTicks ==
    /\ call.name = "status"
    /\ StatusPublished(call.fail)
    /\ call.prev
    /\ call.pre[TickServer].backend = srv[TickServer].backend

\* C19: over two consecutive ticks of an unchanged backend the arrays are
\* topology-equal, the second tick does not set topology_changed, every row
\* keeps its last_data_time and no seen_connected goes from true to false.
C19_UnchangedBackendIsStable ==
    TwoTicks =>
        /\ ~TopologyDiffers
        /\ srv[TickServer].topology_changed
               = call.pre[TickServer].topology_changed
        /\ \A i \in DOMAIN NewStatus :
              /\ NewStatus[i].last_data_time = OldStatus[i].last_data_time
              /\ OldStatus[i].seen_connected => NewStatus[i].seen_connected

\* Two such ticks over a connecting row that was seen connected, with the
\* flag clear and the time of the rows older than the second tick.
C19_Witness ==
    /\ TwoTicks
    /\ ~srv[TickServer].topology_changed
    /\ \E i \in DOMAIN NewStatus :
          /\ NewStatus[i].slave_io_running = "CONNECTING"
          /\ NewStatus[i].seen_connected
          /\ NewStatus[i].last_data_time < now

(***************************************************************************)
(* What a reader sees during a tick                                        *)
(***************************************************************************)
\* A reader has read.
HasRead == call.name = "tick" /\ call.seen # <<>>

\* C20: what a reader reports of slave_status, gtid_current_pos and
\* gtid_binlog_pos was published by one and the same tick: never the array
\* of one tick with the positions of the tick before.
C20_ReaderSeesOneTick ==
    HasRead => call.seen[1].status_by = call.seen[1].gtids_by

\* A reader that runs between do_show_slave_status and update_gtids of a
\* tick reports an array that has the io position of the new event with the
\* positions the tick before cached.
C20_WitnessNewArrayOldPositions ==
    /\ HasRead
    /\ call.seen[1].pc = "gtids"
    /\ call.seen[1].slave_status # <<>>
    /\ call.seen[1].slave_status[1].gtid_io_pos = Gtid(2)
    /\ call.seen[1].gtid_current_pos = Gtid(1)

(***************************************************************************)
(* Direct reads that fail                                                  *)
(***************************************************************************)
DirectReads ==
    {"read_server_variables", "update_slave_status", "update_gtids",
     "update_replication_settings"}

\* The last call was a direct read that returned false.
ReadFailed == call.name \in DirectReads /\ ~call.ok

\* What the agent caches from its direct reads.
CacheOf(a) ==
    <<a.server_id, a.read_only, a.gtid_domain_id, a.slave_status,
      a.gtid_current_pos, a.gtid_binlog_pos, a.rpl_settings,
      a.topology_changed>>

\* C21: a direct read that returns false leaves server_id, read_only,
\* gtid_domain_id, slave_status, the GTID positions, the replication
\* settings and topology_changed as they were before the call.
C21_FailedReadLeavesCache ==
    ReadFailed => CacheOf(srv[TickServer]) = CacheOf(call.pre[TickServer])

\* The same for the reads that store nothing before they can fail: all but
\* read_server_variables.
C21_FailedReadLeavesCacheButVariables ==
    (ReadFailed /\ call.name # "read_server_variables")
        => CacheOf(srv[TickServer]) = CacheOf(call.pre[TickServer])

\* read_server_variables returned false for a gtid domain id it could not
\* parse, after it stored read_only and raised topology_changed.
C21_WitnessStoredThenFailed ==
    /\ ReadFailed
    /\ call.name = "read_server_variables"
    /\ call.quirk = "bad_domain"
    /\ srv[TickServer].read_only # call.pre[TickServer].read_only
    /\ srv[TickServer].topology_changed
    /\ ~call.pre[TickServer].topology_changed

\* A slave status read failed on its columns over a backend whose rows
\* differ from the cached ones.
C21_WitnessStatusKept ==
    /\ ReadFailed
    /\ call.name = "update_slave_status"
    /\ call.quirk = "cols41"
    /\ Len(srv[TickServer].backend.conns) # Len(srv[TickServer].slave_status)

(***************************************************************************)
(* The slave status query and its columns                                  *)
(***************************************************************************)
\* The last call was update_slave_status.
StatusCalled == call.name = "update_slave_status"

\* The server before the call has the gtid capability or is a binlog router.
ExtendedStatus ==
    \/ call.pre[TickServer].capabilities.gtid
    \/ call.pre[TickServer].srv_type = "BINLOG_ROUTER"

\* The number of columns of the result the call got.
ColumnsGot ==
    CASE call.quirk = "cols39" -> 39
      [] call.quirk = "cols40" -> 40
      [] call.quirk = "cols41" -> 41
      [] OTHER -> IF call.query = "SHOW_ALL_SLAVES_STATUS" THEN 42 ELSE 40

\* C22: update_slave_status sends SHOW ALL SLAVES STATUS and asks for 42
\* columns when the server has the gtid capability or is a binlog router,
\* else SHOW SLAVE STATUS and 40 columns; it returns true exactly when the
\* query succeeded with that many columns and every required column, and
\* when it returns false slave_status and master_id are as before.
C22_SlaveStatusColumns ==
    StatusCalled =>
        /\ call.query = (IF ExtendedStatus THEN "SHOW_ALL_SLAVES_STATUS"
                         ELSE "SHOW_SLAVE_STATUS")
        /\ call.ok = (/\ call.fail = {}
                      /\ ColumnsGot >= (IF ExtendedStatus THEN 42 ELSE 40)
                      /\ call.quirk # "nocolumn")
        /\ ~call.ok =>
              /\ srv[TickServer].slave_status
                    = call.pre[TickServer].slave_status
              /\ srv[TickServer].master_id = call.pre[TickServer].master_id

\* A result of 41 columns to SHOW ALL SLAVES STATUS was turned down while
\* the backend had other connections than the cached ones.
C22_Witness ==
    /\ StatusCalled
    /\ ~call.ok
    /\ call.query = "SHOW_ALL_SLAVES_STATUS"
    /\ call.quirk = "cols41"
    /\ srv[TickServer].backend.conns # <<>>
    /\ srv[TickServer].slave_status = <<>>

\* A result of 40 columns to SHOW SLAVE STATUS was taken and changed the
\* master id.
C22_WitnessFortyTaken ==
    /\ StatusCalled
    /\ call.ok
    /\ call.query = "SHOW_SLAVE_STATUS"
    /\ call.quirk = "cols40"
    /\ srv[TickServer].master_id # call.pre[TickServer].master_id

(***************************************************************************)
(* The warning of a failed monitor update                                  *)
(***************************************************************************)
\* C23: in a run of consecutive failed ticks the update-error warning is
\* written at most once; after it no tick warns before a tick in which all
\* queries succeeded.
C23_WarnOncePerFailureRun ==
    call.name = "tick" =>
        /\ call.in_run <= 1
        /\ (call.warned /\ call.before.name # "none")
              => (call.before.ok \/ call.before.in_run = 0)

\* A run of three failed ticks: the first fails without an error message,
\* the second warns, the third is silent.
C23_Witness ==
    /\ call.name = "tick" /\ ~call.ok /\ ~call.warned /\ call.fail # {}
    /\ call.before.name = "tick" /\ ~call.before.ok /\ call.before.warned
    /\ call.before.before.name = "tick" /\ ~call.before.before.ok
    /\ call.before.before.quirk # "none"

\* A warning, a tick that succeeds, and a warning again.
C23_WitnessRearmed ==
    /\ call.name = "tick" /\ call.warned
    /\ call.before.name = "tick" /\ call.before.ok
    /\ call.before.before.name = "tick" /\ call.before.before.warned

(***************************************************************************)
(* The gates of promotion and demotion                                     *)
(***************************************************************************)
\* The server the gate was asked of, before the call.
GateServer == call.pre[TickServer]

\* The slave channels of the server to the counterpart srv1: rows whose sql
\* thread runs and whose io thread is not stopped, for the host and port of
\* srv1, or, when host names are not taken to be unique, for its server id
\* on a connection that has been seen connected.
ChannelsToCounterpart ==
    {i \in DOMAIN GateServer.slave_status :
        /\ GateServer.slave_status[i].slave_sql_running
        /\ GateServer.slave_status[i].slave_io_running \in {"YES", "CONNECTING"}
        /\ IF GateServer.assume_unique_hostnames
           THEN /\ GateServer.slave_status[i].master_host = "srv1"
                /\ GateServer.slave_status[i].master_port = 3306
           ELSE /\ GateServer.slave_status[i].master_server_id
                      = call.pre["srv1"].server_id
                /\ GateServer.slave_status[i].seen_connected}

\* The settings query of the gate would answer.
SettingsReadable == call.fail = {} /\ call.quirk = "none"

C24_WitnessSwitchoverRefuses ==
    /\ call.name = "can_be_promoted"
    /\ ~call.ok
    /\ call.optype = "SWITCHOVER"
    /\ call.reason = "its slave connection is broken."

\* The check of can_be_demoted_switchover that fails first, by its reason;
\* "" when none fails.
FirstFailedOfSwitchoverDemotion ==
    IF ~("RUNNING" \in GateServer.status /\ "MAINT" \notin GateServer.status)
    THEN "it is not running or it is in maintenance."
    ELSE IF ~SettingsReadable THEN "it could not be queried"
    ELSE IF ~GateServer.backend.rpl_settings.log_bin
    THEN "its binary log is disabled."
    ELSE IF /\ "MASTER" \notin GateServer.status
            /\ ~GateServer.backend.rpl_settings.log_slave_updates
    THEN "it is not the master and log_slave_updates is disabled."
    ELSE IF GateServer.gtid_binlog_pos = NoGtid
    THEN "it does not have a 'gtid_binlog_pos'."
    ELSE ""

\* C25: can_be_demoted_switchover is true exactly when the server is
\* usable, its settings can be read, its binary log is on, it is the master
\* or has log_slave_updates on, and its cached gtid_binlog_pos is not empty;
\* a refusal gives the reason of the first check that failed; role bits,
\* slave_status and GTID positions are left alone.
C25_CanBeDemotedSwitchover ==
    call.name = "can_be_demoted_switchover" =>
        /\ call.ok = (FirstFailedOfSwitchoverDemotion = "")
        /\ call.reason = FirstFailedOfSwitchoverDemotion
        /\ srv[TickServer].status = GateServer.status
        /\ srv[TickServer].slave_status = GateServer.slave_status
        /\ srv[TickServer].gtid_current_pos = GateServer.gtid_current_pos
        /\ srv[TickServer].gtid_binlog_pos = GateServer.gtid_binlog_pos

\* A slave with log_slave_updates off on its backend is refused, though the
\* cached settings had it on.
C25_Witness ==
    /\ call.name = "can_be_demoted_switchover"
    /\ ~call.ok
    /\ call.reason = "it is not the master and log_slave_updates is disabled."
    /\ GateServer.rpl_settings.log_slave_updates
    /\ GateServer.gtid_binlog_pos = NoGtid

\* A master with log_slave_updates off is taken.
C25_WitnessMaster ==
    /\ call.name = "can_be_demoted_switchover"
    /\ call.ok
    /\ "MASTER" \in GateServer.status
    /\ ~GateServer.backend.rpl_settings.log_slave_updates

\* C26: can_be_demoted_failover is true exactly when the server has not the
\* MASTER role, is not running and has a cached gtid_binlog_pos that is not
\* empty; it sends no query, and a refusal comes with a reason.
C26_CanBeDemotedFailover ==
    call.name = "can_be_demoted_failover" =>
        /\ call.ok = (/\ "MASTER" \notin GateServer.status
                      /\ "RUNNING" \notin GateServer.status
                      /\ GateServer.gtid_binlog_pos # NoGtid)
        /\ call.queries = 0
        /\ srv = call.pre
        /\ ~call.ok => call.reason # ""

\* A server that is down and has a position is taken.
C26_Witness ==
    /\ call.name = "can_be_demoted_failover"
    /\ call.ok
    /\ "RUNNING" \notin GateServer.status

\* A running slave with a position is refused.
C26_WitnessRunning ==
    /\ call.name = "can_be_demoted_failover"
    /\ ~call.ok
    /\ call.reason = "it is running."
    /\ GateServer.gtid_binlog_pos # NoGtid

(***************************************************************************)
(* The connections a promotion creates                                     *)
(***************************************************************************)
\* The CHANGE MASTER commands of the last call, in the order sent.
ChangesSent == SelectSeq(call.cmds, LAMBDA c : c.cmd.kind = "CHANGE")

\* The connections handed to the last call that may be copied.
Copyable ==
    SelectSeq(call.conns,
              LAMBDA c : c.slave_sql_running /\ c.seen_connected
                         /\ c.master_server_id > 0)

\* The last call stopped at the first command that failed, and returned
\* false exactly when one did.
StoppedAtFirstFailure ==
    /\ \A i \in DOMAIN call.cmds : ~call.cmds[i].ok => i = Len(call.cmds)
    /\ call.ok = (\A i \in DOMAIN call.cmds : call.cmds[i].ok)

\* copy_slave_conns created the connections in order: one whose master
\* server id is that of the promotion target with the host and port of the
\* demotion target, any other with its own, each under its own name.
CopiedInOrder ==
    /\ Len(ChangesSent) <= Len(Copyable)
    /\ call.ok => Len(ChangesSent) = Len(Copyable)
    /\ \A k \in DOMAIN ChangesSent :
          /\ ChangesSent[k].cmd.name = Copyable[k].name
          /\ IF Copyable[k].master_server_id = call.pre[SwP].server_id
             THEN /\ ChangesSent[k].cmd.host = SwD
                  /\ ChangesSent[k].cmd.port = 3306
             ELSE /\ ChangesSent[k].cmd.host = Copyable[k].master_host
                  /\ ChangesSent[k].cmd.port = Copyable[k].master_port

\* C27: copy_slave_conns on the promotion target never creates a channel
\* from the target to itself; channels whose master server id is the
\* target's go to the demotion target, the others are created as they
\* were, and the first failure stops the copying with result false.
C27_CopyNeverToItself ==
    call.name = "copy_slave_conns" =>
        /\ \A i \in DOMAIN ChangesSent :
              ~(ChangesSent[i].cmd.host = SwP /\ ChangesSent[i].cmd.port = 3306)
        /\ CopiedInOrder
        /\ StoppedAtFirstFailure

\* What holds of C27: the redirection by server id, the order and the stop
\* at the first failure.
C27_CopyRedirectsByServerId ==
    call.name = "copy_slave_conns" => (CopiedInOrder /\ StoppedAtFirstFailure)

\* The promotion target was told to replicate from its own host and port,
\* and the copy returned true.
C27_WitnessChannelToItself ==
    /\ call.name = "copy_slave_conns"
    /\ call.ok
    /\ \E i \in DOMAIN ChangesSent :
          /\ ChangesSent[i].cmd.host = SwP
          /\ ChangesSent[i].ok
    /\ \E i \in DOMAIN srv[SwP].backend.conns :
          srv[SwP].backend.conns[i].master_host = SwP

\* A channel to the promotion target by server id was created towards the
\* demotion target, and the second channel failed to start.
C27_WitnessRedirected ==
    /\ call.name = "copy_slave_conns"
    /\ ~call.ok
    /\ Len(ChangesSent) = 2
    /\ ChangesSent[1].cmd.host = SwD

\* Connection c points at the promotion target, by server id or by host
\* and port.
PointsAtTarget(c) ==
    \/ c.master_server_id = call.pre[SwP].server_id
    \/ (c.master_host = SwP /\ c.master_port = 3306)

\* The connections handed to the last call that are to be merged, when
\* `any_id` tells whether the server id of an existing connection counts
\* that has not been seen connected.
ToBeMerged(any_id) ==
    SelectSeq(Copyable,
        LAMBDA c :
            /\ ~PointsAtTarget(c)
            /\ \A i \in DOMAIN call.pre[SwP].slave_status :
                  /\ ~(/\ call.pre[SwP].slave_status[i].master_server_id
                             = c.master_server_id
                       /\ any_id \/ call.pre[SwP].slave_status[i].seen_connected)
                  /\ ~(/\ call.pre[SwP].slave_status[i].master_host
                             = c.master_host
                       /\ call.pre[SwP].slave_status[i].master_port
                             = c.master_port))

\* merge_slave_conns created the connections `expected`, in order and up
\* to where it stopped, and did not fail for any other connection.
MergedInOrder(expected) ==
    /\ Len(ChangesSent) <= Len(expected)
    /\ \A k \in DOMAIN ChangesSent :
          /\ ChangesSent[k].cmd.host = expected[k].master_host
          /\ ChangesSent[k].cmd.port = expected[k].master_port
    /\ call.ok =>
          /\ Len(ChangesSent) = Len(expected)
          /\ \A i \in DOMAIN call.cmds : call.cmds[i].ok
    /\ ~call.ok =>
          \/ \E i \in DOMAIN call.cmds : ~call.cmds[i].ok
          \/ Len(ChangesSent) < Len(expected)

C28_Witness ==
    /\ call.name = "merge_slave_conns"
    /\ call.ok
    /\ Len(call.conns) = 2
    /\ Len(ChangesSent) = 1
    /\ call.pre[SwP].slave_status # <<>>

ExistingNames ==
    {call.pre[SwP].slave_status[i].name : i \in DOMAIN call.pre[SwP].slave_status}

\* The names in use when the k-th connection of the merge is named.
NamesInUse(k) == ExistingNames \cup {ChangesSent[j].cmd.name : j \in 1..(k - 1)}

\* The name "To [host]:port" of a saved connection.
Synthesized(c) == "To [" \o c.master_host \o "]:" \o ToString(c.master_port)

\* C29: after merge_slave_conns the names of the existing and the created
\* channels of the promotion target are pairwise distinct; a channel whose
\* name is in use is created as "To [host]:port", and when that name is in
\* use too no channel is created and the merge ends with false.
C29_MergedNamesDistinct ==
    call.name = "merge_slave_conns" =>
        /\ \A k \in DOMAIN ChangesSent :
              /\ ChangesSent[k].cmd.name \notin NamesInUse(k)
              /\ ChangesSent[k].cmd.name =
                    IF ToBeMerged(FALSE)[k].name \in NamesInUse(k)
                    THEN Synthesized(ToBeMerged(FALSE)[k])
                    ELSE ToBeMerged(FALSE)[k].name
        /\ (/\ Len(ChangesSent) < Len(ToBeMerged(FALSE))
            /\ \A i \in DOMAIN call.cmds : call.cmds[i].ok)
              => /\ ~call.ok
                 /\ ToBeMerged(FALSE)[Len(ChangesSent) + 1].name
                       \in NamesInUse(Len(ChangesSent) + 1)
                 /\ Synthesized(ToBeMerged(FALSE)[Len(ChangesSent) + 1])
                       \in NamesInUse(Len(ChangesSent) + 1)

\* A channel has been created under its synthesized name.
C29_Witness ==
    /\ call.name = "merge_slave_conns"
    /\ call.ok
    /\ \E k \in DOMAIN ChangesSent :
          /\ ToBeMerged(FALSE)[k].name \in ExistingNames
          /\ ChangesSent[k].cmd.name = Synthesized(ToBeMerged(FALSE)[k])

\* A merge has given up because both names were in use.
C29_WitnessBothTaken ==
    /\ call.name = "merge_slave_conns"
    /\ ~call.ok
    /\ call.cmds = <<>>
    /\ ToBeMerged(FALSE) # <<>>

(***************************************************************************)
(* redirect_existing_slave_conn                                            *)
(***************************************************************************)
\* The server the redirected connection is pointed at.
RedirectTarget == IF call.server = "srv2" THEN "srv3" ELSE "srv2"

\* The k-th command of the redirect was given what was left of the budget
\* the operation started with.
GivenTheRest(k) ==
    /\ sent[k].how = "time_limit"
    /\ sent[k].server = call.server
    /\ sent[k].limit = call.budget - (k - 1) * call.dur

\* C30: redirect_existing_slave_conn sends STOP SLAVE for the connection
\* (no RESET SLAVE), then CHANGE MASTER with the host and port of the new
\* master and MASTER_USE_GTID=current_pos, then START SLAVE, each only after
\* the one before succeeded and each with what is left of the shared time
\* budget; after a failed command none follows, the result is false and one
\* object has been appended to the json error array.
C30_RedirectSteps ==
    call.name = "redirect" =>
        /\ Len(sent) \in 1..3
        /\ \A k \in DOMAIN sent :
              /\ GivenTheRest(k)
              /\ sent[k].cmd.name = call.plan.name
              /\ k < Len(sent) => sent[k].ok
        /\ sent[1].cmd = [kind |-> "STOP", name |-> call.plan.name]
        /\ Len(sent) >= 2 =>
              /\ sent[2].cmd.kind = "CHANGE"
              /\ sent[2].cmd.host = Address(RedirectTarget)
              /\ sent[2].cmd.port = Port(RedirectTarget)
              /\ sent[2].cmd.use_gtid = "current_pos"
        /\ Len(sent) = 3 =>
              sent[3].cmd = [kind |-> "START", name |-> call.plan.name]
        /\ call.ok = (Len(sent) = 3 /\ sent[3].ok)
        /\ Len(op.errors) = IF call.ok THEN 0 ELSE 1
        /\ op.time_remaining = call.budget - Len(sent) * call.dur

\* A redirect stopped at a failed CHANGE MASTER with one error reported.
C30_Witness ==
    /\ call.name = "redirect"
    /\ ~call.ok
    /\ Len(sent) = 2
    /\ ~sent[2].ok
    /\ Len(op.errors) = 1

\* A redirect went through with time passing.
C30_WitnessDone ==
    /\ call.name = "redirect"
    /\ call.ok
    /\ call.dur = 1
    /\ call.budget = OpBudget
    /\ op.time_remaining = 0

(***************************************************************************)
(* kick_out_super_users                                                    *)
(***************************************************************************)
\* The kills the last call sent.
KillsSent == SelectSeq(sent, LAMBDA c : c.cmd.kind = "KILL")

\* The super-users connected when the call began, by connection id.
SupersBefore == Ascending(call.pre[call.server].backend.supers)

\* C31: kick_out_super_users returns true and reports nothing when the
\* query for the super-users is refused for lack of access; any other
\* failure of the query and every failed KILL appends an error and makes
\* the result false; a failed KILL does not stop the kills that remain.
C31_KickErrors ==
    call.name = "kick_out_super_users" =>
        /\ sent[1].cmd.kind = "SELECT_SUPER_USERS"
        /\ (~sent[1].ok /\ call.quirk = "denied") =>
              (call.ok /\ op.errors = <<>> /\ Len(sent) = 1)
        /\ (~sent[1].ok /\ call.quirk # "denied") =>
              (~call.ok /\ Len(op.errors) = 1 /\ Len(sent) = 1)
        /\ sent[1].ok =>
              /\ Len(sent) = 1 + Len(SupersBefore)
              /\ \A k \in DOMAIN SupersBefore :
                    KillsSent[k].cmd.id = SupersBefore[k]
              /\ Len(op.errors)
                    = Cardinality({k \in DOMAIN KillsSent : ~KillsSent[k].ok})
              /\ call.ok = (\A k \in DOMAIN KillsSent : KillsSent[k].ok)

\* The query was refused and the kick passed for done.
C31_Witness ==
    /\ call.name = "kick_out_super_users"
    /\ ~sent[1].ok
    /\ call.quirk = "denied"
    /\ call.ok
    /\ call.pre["srv1"].backend.supers # {}

\* The first kill failed and the second was sent and succeeded.
C31_WitnessKillGoesOn ==
    /\ call.name = "kick_out_super_users"
    /\ Len(KillsSent) = 2
    /\ ~KillsSent[1].ok
    /\ KillsSent[2].ok
    /\ ~call.ok
    /\ Len(op.errors) = 1

(***************************************************************************)
(* disable_events                                                          *)
(***************************************************************************)
\* The events of the server before the call, and the positions of the
\* ALTER EVENT commands of the call.
EventsBefore == call.pre[call.server].backend.events

Alters == {i \in DOMAIN sent : sent[i].cmd.kind = "ALTER_EVENT"}

BinlogSwitches(v) ==
    {i \in DOMAIN sent : sent[i].cmd.kind = "SQL_LOG_BIN" /\ sent[i].cmd.value = v}

\* The result of a disabling whose event query was sent: every enabled
\* event was altered successfully.
DisabledAll ==
    /\ \E i \in DOMAIN sent : sent[i].cmd.kind = "SELECT_EVENTS" /\ sent[i].ok
    /\ \A i \in Alters : sent[i].ok

\* C32: disable_events with BINLOG_OFF sends sql_log_bin=0 first, before
\* any ALTER EVENT, and sql_log_bin=1 last, after every ALTER EVENT; when
\* switching off fails nothing else is sent and the result is false; once
\* it is switched off the restore is sent whether or not the events could
\* be disabled, and its own result does not count. Only ENABLED events are
\* altered, to DISABLE ON SLAVE.
C32_DisableEventsBinlogOff ==
    (call.name = "disable_events" /\ call.type = "BINLOG_OFF") =>
        /\ BinlogSwitches(0) = {1}
        /\ ~sent[1].ok => (Len(sent) = 1 /\ ~call.ok /\ Len(op.errors) = 1)
        /\ sent[1].ok =>
              /\ BinlogSwitches(1) = {Len(sent)}
              /\ Len(sent) > 1
              /\ call.ok = DisabledAll
        /\ \A i \in Alters :
              /\ 1 < i /\ i < Len(sent)
              /\ sent[i].cmd.status = "DISABLE ON SLAVE"
              /\ EventsBefore[sent[i].cmd.event] = "ENABLED"
        /\ (sent[1].ok /\ sent[2].ok) =>
              \A e \in DOMAIN EventsBefore :
                 EventsBefore[e] = "ENABLED"
                    => \E i \in Alters : sent[i].cmd.event = e

\* The restore failed after everything else had succeeded: the result is
\* true.
C32_Witness ==
    /\ call.name = "disable_events"
    /\ call.type = "BINLOG_OFF"
    /\ Alters # {}
    /\ ~sent[Len(sent)].ok
    /\ call.ok

\* An ALTER EVENT failed and the session binlog was switched back on.
C32_WitnessRestoredAfterFailure ==
    /\ call.name = "disable_events"
    /\ call.type = "BINLOG_OFF"
    /\ \E i \in Alters : ~sent[i].ok
    /\ ~call.ok
    /\ sent[Len(sent)].cmd = [kind |-> "SQL_LOG_BIN", value |-> 1]
    /\ sent[Len(sent)].ok

(***************************************************************************)
(* reset_all_slave_conns                                                   *)
(***************************************************************************)
\* The cached connections of the server before the call and the
\* connections its backend has before and after.
CachedBefore == call.pre[call.server].slave_status

BackendBefore == call.pre[call.server].backend.conns

BackendNow == srv[call.server].backend.conns

\* The number of connections the call has reset.
ResetDone == Cardinality({i \in DOMAIN sent : sent[i].cmd.kind = "RESET_ALL" /\ sent[i].ok})

\* C33: reset_all_slave_conns goes through the cached connections in array
\* order, sending STOP SLAVE and then RESET SLAVE ALL for each; the first
\* failed command ends the loop with one error and false; the connections
\* before it stay reset, those after it are not touched, and the cached
\* slave_status is as it was.
C33_ResetAllSlaveConns ==
    call.name = "reset_all_slave_conns" =>
        /\ \A i \in DOMAIN sent :
              /\ sent[i].cmd.kind = IF i % 2 = 1 THEN "STOP" ELSE "RESET_ALL"
              /\ sent[i].cmd.name = CachedBefore[(i + 1) \div 2].name
              /\ sent[i].how = "cmd"
              /\ ~sent[i].ok => i = Len(sent)
        /\ Len(sent) <= 2 * Len(CachedBefore)
        /\ call.ok = (Len(sent) = 2 * Len(CachedBefore) /\ \A i \in DOMAIN sent : sent[i].ok)
        /\ ~call.ok => (~sent[Len(sent)].ok /\ Len(op.errors) = 1)
        /\ call.ok => op.errors = <<>>
        /\ srv[call.server].slave_status = CachedBefore
        /\ \A k \in DOMAIN CachedBefore :
              /\ k <= ResetDone =>
                    ~\E j \in DOMAIN BackendNow : BackendNow[j].name = CachedBefore[k].name
              /\ 2 * k - 1 > Len(sent) =>
                    \E j \in DOMAIN BackendNow, h \in DOMAIN BackendBefore :
                       /\ BackendNow[j].name = CachedBefore[k].name
                       /\ BackendNow[j] = BackendBefore[h]

\* The reset of the second connection failed: the first is gone, the
\* cached array still has both.
C33_Witness ==
    /\ call.name = "reset_all_slave_conns"
    /\ ~call.ok
    /\ Len(sent) = 4
    /\ Len(srv[call.server].slave_status) = 2
    /\ Len(BackendNow) = 1

\* The first STOP SLAVE failed with a second connection behind it.
C33_WitnessUntouched ==
    /\ call.name = "reset_all_slave_conns"
    /\ Len(sent) = 1
    /\ Len(CachedBefore) = 2
    /\ BackendNow = BackendBefore

(***************************************************************************)
(* Cycles of the replication graph                                         *)
(***************************************************************************)
\* The nodes that can be reached from the set S along the edges of the
\* graph of the last call, S included.
RECURSIVE ReachedFrom(_)
ReachedFrom(S) ==
    IF UNION {call.graph[n] : n \in S} \subseteq S THEN S
    ELSE ReachedFrom(S \cup UNION {call.graph[n] : n \in S})

\* Each of a and b is reachable from the other.
SameComponent(a, b) == b \in ReachedFrom({a}) /\ a \in ReachedFrom({b})

DomainsOf(list) == {t.domain : t \in list}

SeqOf(list, d) == (CHOOSE t \in list : t.domain = d).sequence

\* The left list is nowhere ahead of the right one, in the domains both
\* have.
NowhereAhead ==
    \A d \in DomainsOf(call.lhs) \cap DomainsOf(call.rhs) :
       SeqOf(call.lhs, d) <= SeqOf(call.rhs, d)

C35_ZeroWhenNowhereAhead ==
    call.name = "events_ahead" =>
        /\ NowhereAhead => call.events = 0
        /\ call.events = 0 => SumAhead(call.lhs, call.rhs) % (2 ^ SeqBits) = 0
        /\ \A t \in call.lhs :
              t.domain \notin DomainsOf(call.rhs)
                 => call.events = events_ahead(call.lhs \ {t}, call.rhs)

TickQueries ==
    [i \in 1..(Len(sent) + 1 - call.first) |-> sent[call.first + i - 1]]

TickedBefore == call.pre[TickServer]

\* The reads of a tick of a normal backend, in the order the claim gives.
ReadsInOrder ==
    <<"variables", "status">>
    \o (IF TickedBefore.capabilities.gtid THEN <<"gtids">> ELSE <<>>)
    \o (IF TickedBefore.query_events THEN <<"events">> ELSE <<>>)

\* The queries of a read.
QueryOfRead(read) ==
    CASE read = "variables" -> {"SELECT_VARIABLES"}
      [] read = "status" -> {"SHOW_ALL_SLAVES_STATUS", "SHOW_SLAVE_STATUS"}
      [] read = "gtids" -> {"SELECT_GTIDS"}
      [] OTHER -> {"SELECT_ENABLED_EVENTS"}

\* What a read keeps in the cache of server record a.
CacheOfRead(read, a) ==
    CASE read = "variables" -> <<a.server_id, a.read_only, a.gtid_domain_id>>
      [] read = "status" -> <<a.slave_status, a.master_id>>
      [] read = "gtids" -> <<a.gtid_current_pos, a.gtid_binlog_pos>>
      [] OTHER -> <<a.enabled_events>>

\* The reads `reads` were run in order up to the first that failed, and
\* what the reads after it keep is as it was.
RunUntilFailure(reads) ==
    /\ Len(TickQueries) <= Len(reads)
    /\ \A k \in DOMAIN TickQueries :
          /\ TickQueries[k].cmd.kind \in QueryOfRead(reads[k])
          /\ ~TickQueries[k].ok => (k = Len(TickQueries) /\ ~call.ok)
    /\ call.ok => Len(TickQueries) = Len(reads)
    /\ \A k \in DOMAIN reads :
          k > Len(TickQueries)
             => CacheOfRead(reads[k], srv[TickServer])
                   = CacheOfRead(reads[k], TickedBefore)

\* C36: a tick of a normal backend reads the server variables, the slave
\* status, the GTID positions (with the gtid capability) and the enabled
\* events (when events are queried), in this order; a read that fails is
\* the last of its tick and what the later reads keep stays as it was; a
\* binlog router has only its slave status read; a backend without basic
\* support is not queried and its tick succeeds.
C36_ReadsInOrder ==
    call.name = "monitor_server" =>
        IF TickedBefore.srv_type = "BINLOG_ROUTER"
        THEN RunUntilFailure(<<"status">>)
        ELSE IF TickedBefore.capabilities.basic_support
        THEN /\ RunUntilFailure(ReadsInOrder)
             /\ call.quirk = "bad_id" => (Len(TickQueries) = 1 /\ ~call.ok)
             /\ (call.quirk = "cols41" /\ TickedBefore.capabilities.gtid)
                   => (Len(TickQueries) <= 2 /\ ~call.ok)
        ELSE TickQueries = <<>> /\ call.ok /\ srv = call.pre

\* The slave status was turned down: the positions and the events were not
\* read and are as before, though the backend has others.
C36_Witness ==
    /\ call.name = "monitor_server"
    /\ TickedBefore.srv_type = "NORMAL"
    /\ ReadsInOrder = <<"variables", "status", "gtids", "events">>
    /\ Len(TickQueries) = 2
    /\ TickQueries[2].ok
    /\ ~call.ok
    /\ srv[TickServer].gtid_current_pos # srv[TickServer].backend.gtid_current_pos

\* A whole tick without the gtid capability: three reads.
C36_WitnessNoGtid ==
    /\ call.name = "monitor_server"
    /\ call.ok
    /\ Len(TickQueries) = 3
    /\ TickQueries[3].cmd.kind = "SELECT_ENABLED_EVENTS"

(***************************************************************************)
(* enable_events                                                           *)
(***************************************************************************)
\* The events enable_events is to alter: those of the set that are
\* disabled on the server.
ToEnable ==
    {e \in DOMAIN EventsBefore \cap call.plan :
        EventsBefore[e] \in {"DISABLED", "SLAVESIDE_DISABLED"}}

\* What enable_events does apart from the definer: once the events are
\* read, one ALTER EVENT ... ENABLE for each event to enable and for no
\* other, whether or not an earlier one failed; the result is true exactly
\* when the events were read and every ALTER succeeded.
EnabledAsAsked ==
    /\ sent[1].cmd.kind = "SELECT_EVENTS"
    /\ ~sent[1].ok => (Alters = {} /\ ~call.ok)
    /\ sent[1].ok =>
          /\ {sent[i].cmd.event : i \in Alters} = ToEnable
          /\ Cardinality(Alters) = Cardinality(ToEnable)
    /\ \A i \in Alters : sent[i].cmd.status = "ENABLE"
    /\ call.ok = (sent[1].ok /\ \A i \in Alters : sent[i].ok)
    /\ \A e \in DOMAIN EventsBefore :
          srv[call.server].backend.events[e] =
             IF \E i \in Alters : sent[i].cmd.event = e /\ sent[i].ok
             THEN "ENABLED" ELSE EventsBefore[e]

\* C37: enable_events alters exactly the events of the set that are
\* DISABLED or SLAVESIDE_DISABLED, to ENABLE and with the definer they had;
\* a failed ALTER does not stop the others; the result is true exactly when
\* the events could be read and each of these events was enabled.
C37_EnableEvents ==
    call.name = "enable_events" =>
        /\ EnabledAsAsked
        /\ \A e \in DOMAIN EventsBefore :
              srv[call.server].backend.definers[e]
                 = call.pre[call.server].backend.definers[e]

\* The same without the definer.
C37_EnableEventsButDefiner == call.name = "enable_events" => EnabledAsAsked

\* An event of u@v at host h was enabled and belongs to u at host v@h.
C37_WitnessDefinerChanged ==
    /\ call.name = "enable_events"
    /\ call.ok
    /\ call.pre[call.server].backend.definers["db.ev1"]
          = [user |-> <<"u", "@", "v">>, host |-> <<"h">>]
    /\ srv[call.server].backend.definers["db.ev1"]
          = [user |-> <<"u">>, host |-> <<"v", "@", "h">>]

\* The first ALTER EVENT failed and the second event was enabled.
C37_WitnessGoesOn ==
    /\ call.name = "enable_events"
    /\ ~call.ok
    /\ Cardinality(Alters) = 2
    /\ \E i \in Alters, j \in Alters : i < j /\ ~sent[i].ok /\ sent[j].ok

(***************************************************************************)
(* Termination of the waiting loops                                        *)
(***************************************************************************)
\* C38: with a finite budget and a backend that answers every attempt,
\* execute_cmd_time_limit and catchup_to_master return, whatever the
\* attempts and the polls answer and however little time they take.
C38_LoopsTerminate == <>(sw.pc = "done")

\* execute_cmd_time_limit returned false after repeated attempts, when the
\* time was up.
C38_Witness ==
    /\ sw.pc = "done"
    /\ "cmd_success" \in DOMAIN sw
    /\ ~sw.cmd_success
    /\ sw.retried
    /\ sw.time_limit > 0
    /\ sw.timer >= sw.time_limit

\* catchup_to_master gave up after it had slept.
C38_WitnessCatchup ==
    /\ sw.pc = "done"
    /\ "time_is_up" \in DOMAIN sw
    /\ sw.time_is_up
    /\ sw.retried

(***************************************************************************)
(* C39                                                                     *)
(***************************************************************************)
\* The promote of a switchover got as far as copy_slave_conns: nothing before
\* it failed, or the copy itself is what failed.
ReachedCopy ==
    /\ call.name = "promote" /\ call.type = "SWITCHOVER"
    /\ \/ call.ok
       \/ op.errors # <<>>
          /\ Last(op.errors) = "Could not copy slave connections"

\* The assertion of copy_slave_conns failed in this call.
AssertionFailed ==
    \E i \in DOMAIN op.log : op.log[i].sink = "assert"

\* C39: whenever a switchover promote reaches copy_slave_conns, the cached
\* slave status of the promoted server is empty, so the assertion at the
\* start of copy_slave_conns holds, whatever the backend answers to the slave
\* status read of remove_slave_conns.
C39_CopyStartsEmpty ==
    ReachedCopy => ~AssertionFailed

\* A switchover promote that removed every cached channel, read back a
\* channel the cache never had, and went into copy_slave_conns with it.
C39_WitnessNewChannel ==
    /\ ReachedCopy /\ AssertionFailed
    /\ call.ok
    /\ \A i \in DOMAIN call.pre["srv2"].slave_status :
          call.pre["srv2"].slave_status[i].name # "n"
    /\ \E i \in DOMAIN srv["srv2"].slave_status :
          srv["srv2"].slave_status[i].name = "n"

\* When the backend has only the cached channels the assertion holds.
C39_CopyStartsEmptyWhenNothingAdded ==
    (/\ ReachedCopy
     /\ Len(call.pre["srv2"].backend.conns)
           = Len(call.pre["srv2"].slave_status))
       => ~AssertionFailed

(***************************************************************************)
(* C40                                                                     *)
(***************************************************************************)
\* What remove_slave_conns reports when it fails.
RemovalErrors ==
    {"Failed to remove slave connection(s)",
     "Failed to update slave connections",
     "still has removed slave connections"}

\* Step 1 of the demote that ran succeeded.
DemoteRemoved ==
    \A e \in DOMAIN op.errors : op.errors[e] \notin RemovalErrors

\* The status bits of the demoted server before the call.
DemoteBitsBefore == call.pre[call.server].status

\* C40: demote clears the MASTER bit of its server exactly when
\* to_from_master is set and the channel removal succeeded, and changes no
\* other bit; once cleared the bit is clear in every later command and at
\* the end, also when a later step failed. With to_from_master unset the
\* status bits and read_only stay as they were, no super-user is looked up or
\* killed, and the only commands are those of the removal and the gtid
\* query.
C40_DemoteMasterBit ==
    DemoteDone =>
        /\ srv[call.server].status =
              IF call.plan.to_from_master /\ DemoteRemoved
              THEN DemoteBitsBefore \ {"MASTER"}
              ELSE DemoteBitsBefore
        /\ \A i \in DOMAIN sent :
              /\ sent[i].bits \in {DemoteBitsBefore,
                                   DemoteBitsBefore \ {"MASTER"}}
              /\ "MASTER" \notin sent[i].bits =>
                    /\ "MASTER" \notin srv[call.server].status
                    /\ \A j \in DOMAIN sent :
                          j > i => "MASTER" \notin sent[j].bits
        /\ ~call.plan.to_from_master =>
              /\ At({"READ_ONLY0", "READ_ONLY1"} \cup KickCmds) = {}
              /\ \A i \in DOMAIN sent :
                    Label(sent[i].cmd) \in
                        RemovalCmds \cup RereadCmds \cup {"SELECT_GTIDS"}
              /\ srv[call.server].backend.read_only
                     = call.pre[call.server].backend.read_only
              /\ srv[call.server].read_only
                     = call.pre[call.server].read_only
              /\ srv[call.server].backend.supers
                     = call.pre[call.server].backend.supers
              /\ DemoteRemoved => At({"SELECT_GTIDS"}) # {}

\* The master was demoted, its channels were removed and the kick failed:
\* the demote failed and the MASTER bit is gone.
C40_Witness ==
    /\ DemoteDone /\ ~call.ok
    /\ call.plan.to_from_master /\ DemoteRemoved
    /\ "MASTER" \in DemoteBitsBefore
    /\ "MASTER" \notin srv[call.server].status
    /\ At(KickCmds) # {} /\ ~AllOk(At(KickCmds))
    /\ At({"READ_ONLY1"}) = {}

\* The master was demoted with to_from_master unset: it keeps the bit.
C40_WitnessNotFromMaster ==
    /\ DemoteDone /\ call.ok
    /\ ~call.plan.to_from_master
    /\ "MASTER" \in srv[call.server].status
    /\ call.pre[call.server].slave_status # <<>>
    /\ At(RemovalCmds) # {} /\ At({"SELECT_GTIDS"}) # {}

\* The removal failed in a demote with to_from_master: the bit stays.
C40_WitnessRemovalFailed ==
    /\ DemoteDone /\ ~call.ok
    /\ call.plan.to_from_master /\ ~DemoteRemoved
    /\ "MASTER" \in srv[call.server].status

====
